---- MODULE Spec2Model ----
(***************************************************************************)
(* Verification model of the RapidX validator node.                        *)
(*                                                                         *)
(*   Spec      the validator node as signing coordinator: signal events,   *)
(*             orchestrator messages, the TSS listeners (ValidatorNode.ts) *)
(*             over the TSS service it drives.                             *)
(*   SpecReconnect  Spec with the reconnect timer running.                 *)
(*   SpecMsg   the message handed to signing for two signal events.        *)
(*   SpecDKG   the DKG engine (DKGService) of every party, the node's      *)
(*             startDKGCeremony / handleDKGMessage, and the orchestrator   *)
(*             relay between the parties.                                  *)
(*   SpecDKGFair  SpecDKG with the scheduling fairness of the event loop.  *)
(*   SpecDKGCrowded  SpecDKG with a validator beyond the total parties.    *)
(*   SpecDKGConfigs  SpecDKG over thresholds below, at and above N.        *)
(*   SpecDKGBroadcast  the ceremony over a relay that broadcasts shares.   *)
(*   SpecKeyStore the file key store (FileBasedKeyStore).                  *)
(*   SpecMonitor  the chain monitor under the supervisor of index.ts.      *)
(*   SpecHealth   GET /health over the health check service.               *)
(*   SpecDKGEcho  the ceremony over a relay that echoes to the sender.     *)
(*   SpecConnection  the node's orchestrator connection and its timer.     *)
(*   SpecRevenueFault  signal events with a revenue database that fails.   *)
(*   SpecRevenue  interleaved recordSignature calls (RevenueTracker).      *)
(*   SpecGrpc     the TSS gRPC client (TSSGrpcClient).                     *)
(*                                                                         *)
(* TSSService.ts is imported by the node but is not among the repository   *)
(* files; its operations are modelled from the specification (section 4.E) *)
(* and are marked so in the model map.                                     *)
(***************************************************************************)
EXTENDS Integers, Sequences, FiniteSets, Bags, TLC

VARIABLES
    \* ---- signing (Spec) ----
    tssPartyId,   \* TSSService config.partyId (index.ts:62)
    wsOpen,       \* ValidatorNode.wsConnection.readyState === OPEN
    requests,     \* TSSService request table: requestId -> request record
    wire,         \* bag of messages the node sent to the orchestrator
    nodeEvents,   \* bag of 'signatureComplete' events emitted by the node
    initiated,    \* bag of requests passed to tssService.initiateSigning
    revenue,      \* set of txHash recorded by recordSignatureRequest
    rejections,   \* partials receivePartialSignature refused: <<requestId,
                  \* party id, error code>>
    alive,        \* the process has not exited
    budget,       \* remaining environment inputs of each kind
    \* ---- canonical message (SpecMsg) ----
    evA, evB,     \* two signal events
    reqA, reqB,   \* the signing requests built for them
    built,        \* which of the two requests have been built
    \* ---- DKG (SpecDKG, SpecDKGFair) ----
    engines,      \* per party: the DKGService objects its node created, in
                  \* order; the last one is ValidatorNode.dkgService
    dkgConfig,    \* threshold and totalParties of the ceremonies
    chan,         \* <<from, to>> -> messages the orchestrator relays, in order
    shareRouting, \* how the orchestrator relays DKG_SHARE
    dkgDropped,   \* messages handleDKGMessage discarded
    dkgErrors,    \* errors startDKGCeremony threw before a ceremony ran
    dkgBudget,    \* remaining environment inputs of each kind
    \* ---- file key store (SpecKeyStore) ----
    ksConfig,     \* FileBasedKeyStore config.encryption
    keyFiles,     \* keyId -> the <keyId>.keyshare file
    metaFiles,    \* keyId -> the <keyId>.metadata.json file
    ksStored,     \* keyId -> the share, salt and iv of the storeKeyShare call
                  \* that wrote the key file now on disk
    ksResult,     \* outcome of the last storeKeyShare / sign / getPublicKey /
                  \* deleteKey call
    ksBudget,     \* remaining calls and file-system faults
    \* ---- chain monitor under the supervisor (SpecMonitor) ----
    supPc,        \* position of initializeServices (index.ts)
    cmIndex,      \* index of the deployment startMonitoring connects next
    isMonitoring, \* ChainMonitorService.isMonitoring
    reachable,    \* chain id -> its RPC endpoint answers
    evmProviders, \* ChainMonitorService.evmProviders: the chain ids it holds
    subscriptions,\* chain id -> number of SignalSent listeners attached
    nodeListening,\* the node has registered its 'signalEvent' listener
    delivered,    \* bag of SignalSent callbacks of the providers
    emitted,      \* bag of 'signalEvent' emissions of the monitor
    unheard,      \* bag of logs that reached a provider without listeners
    cmBudget,     \* remaining environment inputs of each kind
    \* ---- health endpoint (SpecHealth) ----
    healthCheck,  \* the HealthCheckService has been created (index.ts:122)
    nodeStatus,   \* ValidatorNode.getStatus(): isRunning, connected, hasKeyShare
    chainHealth,  \* chain id -> provider.getBlockNumber() answers
    dbConnected,  \* the revenue tracker reaches its database
    lastHealth,   \* the last answer of GET /health
    hcBudget,     \* remaining GET /health requests
    \* ---- orchestrator connection (SpecConnection) ----
    conn,
    \* ---- revenue tracker (SpecRevenue) ----
    tracker,
    \* ---- TSS gRPC client (SpecGrpc) ----
    grpc

signVars == <<tssPartyId, wsOpen, requests, wire, nodeEvents, initiated, revenue,
             rejections, alive, budget>>
msgVars  == <<evA, evB, reqA, reqB, built>>
dkgVars  == <<dkgConfig, engines, chan, shareRouting, dkgDropped, dkgErrors,
             dkgBudget>>
ksVars   == <<ksConfig, keyFiles, metaFiles, ksStored, ksResult, ksBudget>>
cmVars   == <<supPc, cmIndex, isMonitoring, reachable, evmProviders, subscriptions,
             nodeListening, delivered, emitted, unheard, cmBudget>>
hcVars   == <<healthCheck, nodeStatus, chainHealth, dbConnected, lastHealth, hcBudget>>
connVars == <<conn>>
rtVars == <<tracker>>
grpcVars == <<grpc>>
vars     == <<signVars, msgVars, dkgVars, ksVars, cmVars, hcVars, connVars, rtVars, grpcVars>>

\* What the actions of one component leave alone.
besideSign == <<msgVars, dkgVars, ksVars, cmVars, hcVars, connVars, rtVars, grpcVars>>
besideMsg  == <<signVars, dkgVars, ksVars, cmVars, hcVars, connVars, rtVars, grpcVars>>
besideDkg  == <<signVars, msgVars, ksVars, cmVars, hcVars, connVars, rtVars, grpcVars>>
besideKs   == <<signVars, msgVars, dkgVars, cmVars, hcVars, connVars, rtVars, grpcVars>>
besideCm   == <<signVars, msgVars, dkgVars, ksVars, hcVars, connVars, rtVars, grpcVars>>
besideHc   == <<signVars, msgVars, dkgVars, ksVars, cmVars, connVars, rtVars, grpcVars>>
besideConn == <<signVars, msgVars, dkgVars, ksVars, cmVars, hcVars, rtVars, grpcVars>>
besideRt == <<signVars, msgVars, dkgVars, ksVars, cmVars, hcVars, connVars, grpcVars>>
besideGrpc == <<signVars, msgVars, dkgVars, ksVars, cmVars, hcVars, connVars, rtVars>>


(***************************************************************************)
(* Bounds of the model.                                                    *)
(***************************************************************************)
MaxRequests        == 2   \* signalEvent emissions and SIGNING_REQUEST messages, together
MaxFaults          == 1   \* key-store / aggregation faults
MaxWsChanges       == 2   \* 'open' / 'close' events of the orchestrator socket

(***************************************************************************)
(* Program constants.                                                      *)
(***************************************************************************)
SignThreshold    == 3     \* TSS_THRESHOLD default
SignTotalParties == 5     \* TSS_TOTAL_PARTIES default
SignParties == 1..SignTotalParties

(***************************************************************************)
(* Strings.  A hex string is a sequence of characters; Buffer.from(s,'hex')*)
(* decodes it two characters at a time and stops at the first pair that is *)
(* not hexadecimal.                                                        *)
(***************************************************************************)
HexDigits == {"0", "1", "a", "b", "A", "B"}

HexVal(c) ==
    CASE c = "0" -> 0
      [] c = "1" -> 1
      [] c \in {"a", "A"} -> 10
      [] c \in {"b", "B"} -> 11
      [] OTHER -> -1

RECURSIVE HexDecode(_)
HexDecode(s) ==
    IF Len(s) < 2 THEN <<>>
    ELSE IF HexVal(s[1]) < 0 \/ HexVal(s[2]) < 0 THEN <<>>
    ELSE <<16 * HexVal(s[1]) + HexVal(s[2])>> \o HexDecode(SubSeq(s, 3, Len(s)))

\* String.prototype.slice(2)
Slice2(s) == SubSeq(s, 3, Len(s))

\* txHash.slice(0, 10): a transaction hash is modelled by its first ten
\* characters and the rest.
TxSlice10(tx) == tx.pre

SignalIds == { <<"0", "x", "0", "1">>, <<"0", "x", "a", "b">> }
TxHashes  == { [pre |-> "0x11111111", rest |-> "aa"],
               [pre |-> "0x22222222", rest |-> "aa"] }
ReqIds    == SignalIds \X {tx.pre : tx \in TxHashes}

Range(seq) == {seq[k] : k \in DOMAIN seq}

(***************************************************************************)
(* Signatures.  A partial signature is known by its signer and the message *)
(* it signs; an aggregated signature by the key and the message it         *)
(* verifies under.  Hex encoding on the wire is the identity on bytes      *)
(* (toString('hex') followed by Buffer.from(.., 'hex')).                   *)
(***************************************************************************)
GroupKey == "Y"

PartialOver(p, m)   == [signer |-> p, msg |-> m]
VerifyPartial(ps, m) == ps.sig.signer = ps.partyId /\ ps.sig.msg = m
GoodAggregate(m)    == [key |-> GroupKey, msg |-> m]
BadAggregate(m)     == [key |-> "forged", msg |-> m]
NoSignature         == [key |-> "none", msg |-> <<>>]
VerifyAggregate(sig, m) == sig.key = GroupKey /\ sig.msg = m

(***************************************************************************)
(* ValidatorNode.handleSignalEvent: the signing request built for a signal *)
(* event.                                                                  *)
(***************************************************************************)
SignalRequestId(event) == <<event.signalId, TxSlice10(event.txHash)>>

SignalSigningRequest(event) ==
    [ requestId        |-> SignalRequestId(event),
      txHash           |-> event.txHash,
      sourceChain      |-> event.srcChainId,
      destinationChain |-> event.dstChainId,
      message          |-> HexDecode(Slice2(event.signalId)),
      participants     |-> <<1, 2, 3>> ]

(***************************************************************************)
(* ValidatorNode.handleSigningRequest: the signing request built from an   *)
(* orchestrator SIGNING_REQUEST payload.                                   *)
(***************************************************************************)
OrchSigningRequest(data) ==
    [ requestId        |-> data.requestId,
      txHash           |-> data.txHash,
      sourceChain      |-> data.sourceChain,
      destinationChain |-> data.destinationChain,
      message          |-> HexDecode(data.message),
      participants     |-> IF ~data.hasParticipants THEN <<1, 2, 3>>
                           ELSE data.participants ]

(***************************************************************************)
(* TSSService (section 4.E of the specification).                          *)
(* Each operation returns the new request table, the events the service    *)
(* emits, and whether the call threw.                                      *)
(***************************************************************************)
NoRequest == [state |-> "NONE"]

NewRequest(req, st, parts) ==
    [ state            |-> st,
      txHash           |-> req.txHash,
      sourceChain      |-> req.sourceChain,
      destinationChain |-> req.destinationChain,
      message          |-> req.message,
      participants     |-> req.participants,
      partials         |-> parts,
      signature        |-> NoSignature ]

\* initiateSigning: idempotent in requestId; NOT_SELECTED when this party is
\* not a participant; otherwise the key store signs and the own partial is
\* recorded and announced.
TssInitiateSigning(reqs, me, req, signOk) ==
    IF reqs[req.requestId].state # "NONE"
    THEN [reqs |-> reqs, events |-> <<>>, threw |-> FALSE]
    ELSE IF me \notin Range(req.participants)
    THEN [reqs |-> [reqs EXCEPT ![req.requestId] = NewRequest(req, "NOT_SELECTED", {})],
          events |-> <<>>, threw |-> FALSE]
    ELSE IF ~signOk
    THEN [reqs |-> [reqs EXCEPT ![req.requestId] = NewRequest(req, "FAILED", {})],
          events |-> <<>>, threw |-> TRUE]
    ELSE LET own == [partyId |-> me, sig |-> PartialOver(me, req.message)] IN
         [reqs |-> [reqs EXCEPT ![req.requestId] =
                        NewRequest(req, "AWAITING_PARTIALS", {own})],
          events |-> << [type |-> "partialSignatureGenerated",
                         requestId |-> req.requestId,
                         partyId |-> me, signature |-> own] >>,
          threw |-> FALSE]

\* TSSGrpcClient.aggregateSignatures: the call rejects on a transport error or
\* on success = false, and otherwise resolves with the response's signature.
AggregateSignatures(response) ==
    IF response.error THEN [rejected |-> TRUE, signature |-> NoSignature]
    ELSE IF ~response.success THEN [rejected |-> TRUE, signature |-> NoSignature]
    ELSE [rejected |-> FALSE, signature |-> response.signature]

\* The responses the aggregation service can give for message m.
AggregateResponse(kind, m) ==
    CASE kind = "good"    -> [error |-> FALSE, success |-> TRUE, signature |-> GoodAggregate(m)]
      [] kind = "forged"  -> [error |-> FALSE, success |-> TRUE, signature |-> BadAggregate(m)]
      [] kind = "refused" -> [error |-> FALSE, success |-> FALSE, signature |-> BadAggregate(m)]
      [] OTHER            -> [error |-> TRUE, success |-> TRUE, signature |-> GoodAggregate(m)]

AggregateKinds == {"good", "forged", "refused", "error"}

\* Aggregation of a request whose partial map reached the threshold:
\* partials that fail verification are rejected; with fewer than t left the
\* request fails (INSUFFICIENT_PARTIALS); otherwise the aggregate is verified
\* against Y and only then announced.
TssAggregate(reqs, rid, agg) ==
    LET r     == reqs[rid]
        valid == {ps \in r.partials : VerifyPartial(ps, r.message)}
    IN  IF Cardinality(valid) < SignThreshold
        THEN [reqs |-> [reqs EXCEPT ![rid].state = "FAILED", ![rid].partials = valid],
              events |-> <<>>, threw |-> FALSE, code |-> "OK"]
        ELSE IF agg.rejected \/ ~VerifyAggregate(agg.signature, r.message)
        THEN [reqs |-> [reqs EXCEPT ![rid].state = "FAILED", ![rid].partials = valid],
              events |-> <<>>, threw |-> FALSE, code |-> "OK"]
        ELSE [reqs |-> [reqs EXCEPT ![rid].state = "DONE", ![rid].partials = valid,
                                    ![rid].signature = agg.signature],
              events |-> << [type |-> "signatureComplete",
                             requestId |-> rid,
                             txHash |-> r.txHash,
                             sourceChain |-> r.sourceChain,
                             destinationChain |-> r.destinationChain,
                             signature |-> agg.signature,
                             participants |-> r.participants] >>,
              threw |-> FALSE, code |-> "OK"]

\* A party outside the request's participants, taken for a participant.
AnyPartyParticipates(r, partyId) == TRUE

\* The party is one of the request's selected participants.
IsParticipant(r, partyId) == partyId \in Range(r.participants)

\* receivePartialSignature: recorded at most once per party id, only for a
\* request that awaits partials and only from a selected participant.
TssReceivePartialSignature(reqs, me, rid, ps, agg) ==
    LET r == reqs[rid] IN
    IF r.state # "AWAITING_PARTIALS"
    THEN [reqs |-> reqs, events |-> <<>>, threw |-> FALSE, code |-> "OK"]
    ELSE IF ~IsParticipant(r, ps.partyId)
    THEN [reqs |-> reqs, events |-> <<>>, threw |-> FALSE,
          code |-> "UNEXPECTED_PARTICIPANT"]
    ELSE IF \E old \in r.partials : old.partyId = ps.partyId
    THEN [reqs |-> reqs, events |-> <<>>, threw |-> FALSE, code |-> "OK"]
    ELSE LET added == [reqs EXCEPT ![rid].partials = @ \cup {ps}] IN
         IF Cardinality(added[rid].partials) >= SignThreshold
            /\ \E own \in added[rid].partials : own.partyId = me
         THEN TssAggregate(added, rid, agg)
         ELSE [reqs |-> added, events |-> <<>>, threw |-> FALSE, code |-> "OK"]
(***************************************************************************)
(* ValidatorNode: sending to the orchestrator and the TSS listeners.       *)
(***************************************************************************)
\* this.wsConnection?.send(..): nothing reaches the orchestrator unless the
\* socket is open.
WsSend(w, open, m) == IF open THEN w (+) SetToBag({m}) ELSE w

\* A listener that forwards every own partial twice.
PartialSignatureMsgsTwice(data) ==
    LET m == [type |-> "PARTIAL_SIGNATURE", requestId |-> data.requestId,
              partyId |-> data.partyId, signature |-> data.signature.sig]
    IN  << m, m >>

\* A listener that forwards the aggregate without its signature bytes.
SignatureCompleteMsgsUnsigned(data) ==
    << [type |-> "SIGNATURE_COMPLETE", requestId |-> data.requestId,
        txHash |-> data.txHash, signature |-> NoSignature,
        participants |-> data.participants] >>

\* setupTSSListeners, 'partialSignatureGenerated'
PartialSignatureMsgs(data) ==
    << [type |-> "PARTIAL_SIGNATURE", requestId |-> data.requestId,
        partyId |-> data.partyId, signature |-> data.signature.sig] >>

\* setupTSSListeners, 'signatureComplete': the message to the orchestrator
SignatureCompleteMsgs(data) ==
    << [type |-> "SIGNATURE_COMPLETE", requestId |-> data.requestId,
        txHash |-> data.txHash, signature |-> data.signature,
        participants |-> data.participants] >>

\* setupTSSListeners, 'signatureComplete': the event for on-chain recording
SignatureCompleteEvents(data) ==
    << [txHash |-> data.txHash, sourceChain |-> data.sourceChain,
        destinationChain |-> data.destinationChain,
        signature |-> data.signature] >>

\* handleSignalEvent: the notification sent after signing was initiated
SignalEventMsg(event) ==
    [type |-> "SIGNAL_EVENT", signalId |-> event.signalId,
     txHash |-> event.txHash, requestId |-> SignalRequestId(event)]

RECURSIVE SendAll(_, _, _)
SendAll(w, open, msgs) ==
    IF msgs = <<>> THEN w
    ELSE SendAll(WsSend(w, open, Head(msgs)), open, Tail(msgs))

RECURSIVE AddAll(_, _)
AddAll(b, xs) == IF xs = <<>> THEN b ELSE AddAll(b (+) SetToBag({Head(xs)}), Tail(xs))

\* The messages the listeners send for the events of one TSS call.
RECURSIVE ListenerMsgs(_)
ListenerMsgs(events) ==
    IF events = <<>> THEN <<>>
    ELSE (IF Head(events).type = "partialSignatureGenerated"
          THEN PartialSignatureMsgs(Head(events))
          ELSE SignatureCompleteMsgs(Head(events)))
         \o ListenerMsgs(Tail(events))

RECURSIVE ListenerEvents(_)
ListenerEvents(events) ==
    IF events = <<>> THEN <<>>
    ELSE (IF Head(events).type = "signatureComplete"
          THEN SignatureCompleteEvents(Head(events))
          ELSE <<>>)
         \o ListenerEvents(Tail(events))

\* Whether initiateSigning would ask the key store to sign.
WouldSign(req) ==
    /\ requests[req.requestId].state = "NONE"
    /\ tssPartyId \in Range(req.participants)

(***************************************************************************)
(* Actions of Spec.                                                        *)
(***************************************************************************)
SignalEvents ==
    [ signalId : SignalIds, txHash : TxHashes, srcChainId : {"1"},
      dstChainId : {"56"}, nonce : {"7"}, payload : {"dead"} ]

\* A recordSignatureRequest that lets the error of recordSignature through.
RecordSignatureRequestRethrows(recorded, txHash, recordOk) ==
    [revenue |-> IF recordOk THEN recorded \cup {txHash} ELSE recorded,
     threw   |-> ~recordOk]

\* RevenueTracker.recordSignatureRequest: records the transaction unless
\* recordSignature fails; the failure is logged and not thrown.
RecordSignatureRequest(recorded, txHash, recordOk) ==
    [revenue |-> IF recordOk THEN recorded \cup {txHash} ELSE recorded,
     threw   |-> FALSE]

\* chainMonitor 'signalEvent' -> handleSignalEvent(event); whatever is
\* thrown inside is caught and logged.
HandleSignalEvent(event, signOk, recordOk) ==
    /\ alive
    /\ budget.requests > 0
    /\ signOk \/ (WouldSign(SignalSigningRequest(event)) /\ budget.faults > 0)
    /\ LET req == SignalSigningRequest(event)
           rec == RecordSignatureRequest(revenue, event.txHash, recordOk)
           res == TssInitiateSigning(requests, tssPartyId, req, signOk)
           w1  == SendAll(wire, wsOpen, ListenerMsgs(res.events))
       IN  /\ revenue' = rec.revenue
           /\ IF rec.threw
              THEN UNCHANGED <<initiated, requests, nodeEvents, wire>>
              ELSE /\ initiated' = initiated (+) SetToBag({req})
                   /\ requests' = res.reqs
                   /\ nodeEvents' = AddAll(nodeEvents, ListenerEvents(res.events))
                   /\ wire' = IF res.threw THEN w1
                              ELSE WsSend(w1, wsOpen, SignalEventMsg(event))
    /\ budget' = [budget EXCEPT !.requests = @ - 1,
                                !.faults = IF signOk THEN @ ELSE @ - 1]
    /\ UNCHANGED <<tssPartyId, wsOpen, rejections, alive>>

SigningRequestData ==
    [ requestId : ReqIds, txHash : {[pre |-> "0x11111111", rest |-> "aa"]},
      sourceChain : {"1"}, destinationChain : {"56"},
      message : { <<"0", "1">>, <<"A", "B">> },
      hasParticipants : BOOLEAN, participants : { <<2, 3, 4>>, <<3, 2>> } ]

\* The orchestrator relays the signal's id as the message of its request.
RelayedRequestData ==
    {d \in SigningRequestData : HexDecode(d.message) = HexDecode(Slice2(d.requestId[1]))}

\* orchestrator SIGNING_REQUEST -> handleSigningRequest(data); a rejection of
\* the un-awaited handler is unhandled and ends the process (index.ts:253).
HandleSigningRequest(data, signOk) ==
    /\ alive
    /\ budget.requests > 0
    /\ signOk \/ (WouldSign(OrchSigningRequest(data)) /\ budget.faults > 0)
    /\ LET req == OrchSigningRequest(data)
           res == TssInitiateSigning(requests, tssPartyId, req, signOk)
       IN  /\ initiated' = initiated (+) SetToBag({req})
           /\ requests' = res.reqs
           /\ nodeEvents' = AddAll(nodeEvents, ListenerEvents(res.events))
           /\ wire' = SendAll(wire, wsOpen, ListenerMsgs(res.events))
           /\ alive' = ~res.threw
    /\ budget' = [budget EXCEPT !.requests = @ - 1,
                                !.faults = IF signOk THEN @ ELSE @ - 1]
    /\ UNCHANGED <<tssPartyId, wsOpen, revenue, rejections>>

\* orchestrator PARTIAL_SIGNATURE -> handlePartialSignature(data)
HandlePartialSignature(rid, party, sigOk, aggKind) ==
    /\ alive
    /\ LET msg  == IF requests[rid].state = "NONE" THEN <<>> ELSE requests[rid].message
           ps   == [partyId |-> party,
                    sig |-> IF sigOk THEN PartialOver(party, msg)
                            ELSE PartialOver(0, msg)]
           good == TssReceivePartialSignature(requests, tssPartyId, rid, ps,
                       AggregateSignatures(AggregateResponse("good", msg)))
           res  == TssReceivePartialSignature(requests, tssPartyId, rid, ps,
                       AggregateSignatures(AggregateResponse(aggKind, msg)))
       IN  /\ sigOk \/ budget.faults > 0
           /\ aggKind = "good" \/ (sigOk /\ good.events # <<>> /\ budget.faults > 0)
           /\ requests' = res.reqs
           /\ nodeEvents' = AddAll(nodeEvents, ListenerEvents(res.events))
           /\ wire' = SendAll(wire, wsOpen, ListenerMsgs(res.events))
           /\ rejections' = IF res.code = "OK" THEN rejections
                            ELSE rejections \cup {<<rid, party, res.code>>}
    /\ budget' = [budget EXCEPT !.faults = IF aggKind = "good" /\ sigOk THEN @ ELSE @ - 1]
    /\ UNCHANGED <<tssPartyId, wsOpen, initiated, revenue, alive>>

\* The deadline of a request that awaits partials expires.
SigningTimeout(rid) ==
    /\ alive
    /\ requests[rid].state = "AWAITING_PARTIALS"
    /\ requests' = [requests EXCEPT ![rid].state = "FAILED"]
    /\ UNCHANGED <<tssPartyId, wsOpen, wire, nodeEvents, initiated, revenue, rejections,
                   alive, budget>>

\* wsConnection 'open' / 'close'
WsOpened ==
    /\ alive /\ ~wsOpen /\ budget.ws > 0
    /\ wsOpen' = TRUE
    /\ budget' = [budget EXCEPT !.ws = @ - 1]
    /\ UNCHANGED <<tssPartyId, requests, wire, nodeEvents, initiated, revenue,
                   rejections, alive>>

WsClosed ==
    /\ alive /\ wsOpen /\ budget.ws > 0
    /\ wsOpen' = FALSE
    /\ budget' = [budget EXCEPT !.ws = @ - 1]
    /\ UNCHANGED <<tssPartyId, requests, wire, nodeEvents, initiated, revenue,
                   rejections, alive>>

SignInit ==
    /\ tssPartyId = 1
    /\ wsOpen = FALSE
    /\ requests = [rid \in ReqIds |-> NoRequest]
    /\ wire = EmptyBag
    /\ nodeEvents = EmptyBag
    /\ initiated = EmptyBag
    /\ revenue = {}
    /\ rejections = {}
    /\ alive = TRUE
    /\ budget = [requests |-> MaxRequests,
                 faults |-> MaxFaults, ws |-> MaxWsChanges]

(***************************************************************************)
(* SpecMsg: the message handleSignalEvent hands to signing, for two signal *)
(* events drawn from events that differ in every field.                    *)
(***************************************************************************)
MsgEvents ==
    [ signalId : SignalIds, txHash : {[pre |-> "0x11111111", rest |-> "aa"]},
      srcChainId : {"1", "137"}, dstChainId : {"56", "10"},
      nonce : {"7", "8"}, payload : {"dead", "beef"} ]

\* The fields the canonical message is defined over.
SameSignal(e1, e2) ==
    /\ e1.signalId = e2.signalId
    /\ e1.srcChainId = e2.srcChainId
    /\ e1.dstChainId = e2.dstChainId
    /\ e1.nonce = e2.nonce
    /\ e1.payload = e2.payload

BuildA ==
    /\ "A" \notin built
    /\ reqA' = SignalSigningRequest(evA)
    /\ built' = built \cup {"A"}
    /\ UNCHANGED <<evA, evB, reqB>>

BuildB ==
    /\ "B" \notin built
    /\ reqB' = SignalSigningRequest(evB)
    /\ built' = built \cup {"B"}
    /\ UNCHANGED <<evA, evB, reqA>>

MsgIdle ==
    /\ evA = [signalId |-> <<>>] /\ evB = [signalId |-> <<>>]
    /\ reqA = NoRequest /\ reqB = NoRequest /\ built = {}

MsgInit ==
    /\ evA \in MsgEvents /\ evB \in MsgEvents
    /\ reqA = NoRequest /\ reqB = NoRequest /\ built = {}

(***************************************************************************)
(* DKG: parameters.  The ceremonies are scaled down from the 3-of-5 of     *)
(* startDKGCeremony and the scalar field to a small prime; a curve point   *)
(* s*G is represented by s modulo the group order.                         *)
(***************************************************************************)
DkgThreshold     == 2     \* threshold (3 in startDKGCeremony)
DkgTotalParties  == 3     \* totalParties (5 in startDKGCeremony)
MaxDkgAnomalies  == 2     \* repeated startDKGCeremony calls and shares off
                          \* the sender's polynomial, together
MaxDkgTimeouts   == 1     \* waits that run into their timeout
GroupOrder       == 23    \* secp256k1_n

\* The ceremony in which every party is needed for a signature, and the one
\* with parties to spare.
\* startDKGCeremony passes no hsmStore to the engine it creates.
FullCeremony ==
    [threshold |-> DkgThreshold, totalParties |-> DkgThreshold, hsmStore |-> FALSE,
     validators |-> 1..DkgThreshold]
QuorumCeremony ==
    [threshold |-> DkgThreshold, totalParties |-> DkgTotalParties, hsmStore |-> FALSE,
     validators |-> 1..DkgTotalParties]
\* A validator whose id is beyond the total parties the node is coded for
\* takes the place of the last party.
CrowdedCeremony ==
    [threshold |-> DkgThreshold, totalParties |-> DkgThreshold, hsmStore |-> FALSE,
     validators |-> (1..(DkgThreshold - 1)) \cup {DkgTotalParties}]

Nodes       == 1..DkgTotalParties
DkgParties  == 1..dkgConfig.totalParties
\* The validators connected to the orchestrator
Validators  == dkgConfig.validators
Others(p)   == Validators \ {p}

\* config.validatorId of node p: 'validator-<p>', as a sequence of characters
ValidatorId(p) ==
    << "v", "-", CASE p = 0 -> "0" [] p = 1 -> "1" [] p = 2 -> "2" [] OTHER -> "3" >>

DecDigits == {"0", "1", "2", "3"}

DecVal(c) == CASE c = "0" -> 0 [] c = "1" -> 1 [] c = "2" -> 2 [] OTHER -> 3

\* validatorId.match(/(\d+)$/): the digits the id ends with
RECURSIVE TrailingDigits(_)
TrailingDigits(s) ==
    IF s = <<>> \/ s[Len(s)] \notin DecDigits THEN <<>>
    ELSE Append(TrailingDigits(SubSeq(s, 1, Len(s) - 1)), s[Len(s)])

RECURSIVE ParseInt(_)
ParseInt(digits) ==
    IF digits = <<>> THEN 0
    ELSE 10 * ParseInt(SubSeq(digits, 1, Len(digits) - 1)) + DecVal(digits[Len(digits)])

\* startDKGCeremony: the party id is the number the validator id ends with;
\* no range is checked.
PartyIdOf(validatorId) == ParseInt(TrailingDigits(validatorId))

\* crypto.randomBytes(32), one value per coefficient: the draw of the k-th
\* engine of party p.
RandomCoefficients(p, k, threshold) ==
    IF (p + k) % 2 = 0
    THEN [j \in 1..threshold |-> IF j = 1 THEN 20 ELSE 2]
    ELSE [j \in 1..threshold |-> IF j = 1 THEN 3 ELSE 1]

\* f(x) as round 3 and round 5 evaluate it
RECURSIVE EvaluateFrom(_, _, _, _)
EvaluateFrom(coeffs, x, shareValue, xPower) ==
    IF coeffs = <<>> THEN shareValue
    ELSE EvaluateFrom(Tail(coeffs), x,
                      (shareValue + Head(coeffs) * xPower) % GroupOrder,
                      (xPower * x) % GroupOrder)

EvaluatePolynomial(coeffs, x) == EvaluateFrom(coeffs, x, 0, 1)

\* G.multiply(coeff)
Commit(coeff) == coeff % GroupOrder

\* schnorr.getPublicKey(keyShare): the x coordinate of keyShare*G, which
\* keyShare*G and its negation share.
SchnorrPublicKey(keyShare) ==
    IF 2 * keyShare < GroupOrder THEN keyShare ELSE GroupOrder - keyShare

\* ProjectivePoint.fromHex(x-only key): the point with that x coordinate
\* and even y.
PointFromHex(x) == x

\* The Feldman check of a share against the sender's commitments:
\* share*G = sum of C_k * x^k.
FeldmanConsistent(share, commitments, x) ==
    share % GroupOrder = EvaluatePolynomial(commitments, x)

(***************************************************************************)
(* DKG: Map<number, ..> fields as sets of entries with unique keys.        *)
(***************************************************************************)
MapSet(m, k, v) == {e \in m : e.from # k} \cup {[from |-> k, data |-> v]}
MapSize(m)      == Cardinality(m)

\* The sum of the integers of a set of <<key, value>> pairs.
RECURSIVE SumOf(_)
SumOf(S) ==
    IF S = {} THEN 0
    ELSE LET e == CHOOSE x \in S : TRUE IN e[2] + SumOf(S \ {e})

(***************************************************************************)
(* DKG: messages.                                                          *)
(***************************************************************************)
CommitmentMsg(p, coeffs) ==
    [type |-> "DKG_COMMITMENT", from |-> p,
     data |-> [partyId |-> p,
               commitments |-> [k \in DOMAIN coeffs |-> Commit(coeffs[k])]]]

\* The commitment message of a peer that leaves out its last commitment.
ShortCommitmentMsg(p, coeffs) ==
    [CommitmentMsg(p, coeffs) EXCEPT
        !.data.commitments = SubSeq(@, 1, Len(@) - 1)]

ShareMsg(p, toParty, value) ==
    [type |-> "DKG_SHARE", from |-> p,
     data |-> [fromParty |-> p, toParty |-> toParty, encryptedShare |-> value]]

PublicKeyShareMsg(p, pub) ==
    [type |-> "DKG_PUBLIC_KEY_SHARE", from |-> p,
     data |-> [partyId |-> p, publicKeyShare |-> pub]]

\* The orchestrator passes a message of party p on to the given parties.
Relay(ch, p, msg, recipients) ==
    [pr \in DOMAIN ch |->
        IF pr[1] = p /\ pr[2] \in recipients THEN Append(ch[pr], msg) ELSE ch[pr]]

Recipients(routing, p, msg) ==
    IF routing = "echo"
    THEN Validators
    ELSE IF msg.type = "DKG_SHARE" /\ routing = "addressed"
         THEN {msg.data.toParty} \ {p}
         ELSE Others(p)

RECURSIVE RelayAll(_, _, _, _)
RelayAll(ch, routing, p, msgs) ==
    IF msgs = <<>> THEN ch
    ELSE RelayAll(Relay(ch, p, Head(msgs), Recipients(routing, p, Head(msgs))),
                  routing, p, Tail(msgs))

(***************************************************************************)
(* DKGService.                                                             *)
(***************************************************************************)
Unset == -1

\* The Error runDKGCeremony rejects with: its kind, the round and the
\* parties its message names, and the counts its message gives.
NoError ==
    [kind |-> "none", round |-> "none", parties |-> {}, received |-> 0, required |-> 0]

\* 'Timeout waiting for commitments (received r/n)' and
\* 'Timeout waiting for public key shares (received r/n)'
TimeoutError(round, received, required) ==
    [kind |-> "timeout", round |-> round, parties |-> {},
     received |-> received, required |-> required]

\* 'Invalid commitment from Party p'
InvalidCommitmentError(party) ==
    [kind |-> "invalid_commitment", round |-> "commitments", parties |-> {party},
     received |-> 0, required |-> 0]

\* schnorr.getPublicKey rejects a key share that is not in 1..n-1.
InvalidKeyError ==
    [kind |-> "invalid_key", round |-> "publicKeyShares", parties |-> {},
     received |-> 0, required |-> 0]

\* A constructor that accepts any threshold up to the total parties.
ConstructorErrorNoLowerBound(config) ==
    IF config.threshold > config.totalParties THEN "THRESHOLD_EXCEEDS_TOTAL"
    ELSE "none"

\* DKGService constructor: 'Threshold (t) cannot exceed total parties (N)'
\* and 'Threshold must be at least 2'
ConstructorError(config) ==
    IF config.threshold > config.totalParties THEN "THRESHOLD_EXCEEDS_TOTAL"
    ELSE IF config.threshold < 2 THEN "THRESHOLD_BELOW_TWO"
    ELSE "none"

\* new DKGService(config) followed by round1_GenerateCommitments
NewEngine(p, config, coeffs) ==
    [ pc                      |-> "round2",
      error                   |-> NoError,
      partyId                 |-> p,
      threshold               |-> config.threshold,
      totalParties            |-> config.totalParties,
      hsmStore                |-> config.hsmStore,
      stored                  |-> FALSE,
      shortSeen               |-> {},
      coefficients            |-> coeffs,
      receivedCommitments     |-> {},
      receivedShares          |-> {},
      receivedPublicKeyShares |-> {},
      summed                  |-> {},
      myKeyShare              |-> Unset,
      myPublicKeyShare        |-> Unset,
      aggregatedPublicKey     |-> Unset ]

\* handleOrchestratorMessage: Map.set under the sender's party id.
\* shortSeen remembers the senders of the commitment sets of a wrong length
\* that arrived before the engine left the wait of round 2.
HandleOrchestratorMessage(e, msg) ==
    CASE msg.type = "DKG_COMMITMENT" ->
            [e EXCEPT !.receivedCommitments = MapSet(@, msg.from, msg.data),
                      !.shortSeen =
                          IF e.pc = "round2" /\ Len(msg.data.commitments) # e.threshold
                          THEN @ \cup {msg.from} ELSE @]
      [] msg.type = "DKG_SHARE" ->
            [e EXCEPT !.receivedShares = MapSet(@, msg.from, msg.data)]
      [] msg.type = "DKG_PUBLIC_KEY_SHARE" ->
            [e EXCEPT !.receivedPublicKeyShares =
                          MapSet(@, msg.from, msg.data.publicKeyShare)]
      [] OTHER -> e

\* verifyCommitment
VerifyCommitment(e, commitment) ==
    Len(commitment.commitments) = e.threshold

\* waitForAllCommitments / waitForAllPublicKeyShares: the quota
RequiredFromPeers(e) == e.totalParties - 1

\* round3_GenerateShares: the share messages, in the order they are sent;
\* party bad (0 for none) is sent a value off the polynomial.
RECURSIVE ShareMsgsFrom(_, _, _)
ShareMsgsFrom(e, toParty, bad) ==
    IF toParty > e.totalParties THEN <<>>
    ELSE IF toParty = e.partyId THEN ShareMsgsFrom(e, toParty + 1, bad)
    ELSE LET shareValue == EvaluatePolynomial(e.coefficients, toParty)
             sent == IF toParty = bad THEN (shareValue + 1) % GroupOrder
                     ELSE shareValue
         IN  << ShareMsg(e.partyId, toParty, sent) >>
             \o ShareMsgsFrom(e, toParty + 1, bad)

\* round5_ComputeKeyShare: own share plus every received share addressed to
\* this party
SharesToAdd(e) == {s \in e.receivedShares : s.data.toParty = e.partyId}

\* The commitments the engine holds for a sender (none: the empty sequence).
CommitmentsOf(e, from) ==
    IF \E c \in e.receivedCommitments : c.from = from
    THEN (CHOOSE c \in e.receivedCommitments : c.from = from).data.commitments
    ELSE <<>>

\* What round 5 adds into the key share, with the sender's commitments as
\* the engine holds them at that moment.
Added(e) ==
    {[from |-> s.from, share |-> s.data.encryptedShare,
      commitments |-> CommitmentsOf(e, s.from)] : s \in SharesToAdd(e)}

ComputeKeyShare(e) ==
    (EvaluatePolynomial(e.coefficients, e.partyId)
        + SumOf({<<s.from, s.data.encryptedShare>> : s \in SharesToAdd(e)}))
    % GroupOrder

\* round7_AggregatePublicKeys: own public key share plus every entry of
\* receivedPublicKeyShares
AggregatePublicKeys(e) ==
    (PointFromHex(e.myPublicKeyShare)
        + SumOf({<<s.from, PointFromHex(s.data)>> : s \in e.receivedPublicKeyShares}))
    % GroupOrder

Running(e) == e.pc \notin {"done", "failed"}

(***************************************************************************)
(* What an engine writes to the log and what POST /api/dkg/start answers.  *)
(* A record names where it goes, the kind of the value and the value: a    *)
(* scalar is the hex of secret bytes, a point the hex of a public key, a   *)
(* digest the hex of a hash.                                               *)
(***************************************************************************)
\* crypto.createHash('sha256').update(keyShare).digest('hex').slice(0, 16)
Sha256Prefix(keyShare) == (7 * keyShare + 11) % GroupOrder

\* A round 5 that writes the key share itself where the code writes its hash.
Round5LogRaw(keyShare) ==
    { [to |-> "log", kind |-> "count", value |-> 32],
      [to |-> "log", kind |-> "scalar", value |-> keyShare] }

\* round5_ComputeKeyShare: the length of the key share and the first 16 hex
\* digits of its SHA-256
Round5Log(keyShare) ==
    { [to |-> "log", kind |-> "count", value |-> 32],
      [to |-> "log", kind |-> "digest", value |-> Sha256Prefix(keyShare)] }

\* runDKGCeremony's opening lines: party id, threshold and total parties
CeremonyLog(e) ==
    { [to |-> "log", kind |-> "party", value |-> e.partyId],
      [to |-> "log", kind |-> "count", value |-> e.threshold],
      [to |-> "log", kind |-> "count", value |-> e.totalParties] }

\* round6_BroadcastPublicKeyShare and round7_AggregatePublicKeys: the public
\* key share and the aggregated public key
PublicKeyLog(e) ==
    { [to |-> "log", kind |-> "point", value |-> v] :
        v \in {e.myPublicKeyShare, e.aggregatedPublicKey} \ {Unset} }

\* logger.error('DKG CEREMONY FAILED:', error), logger.error('Error starting
\* DKG ceremony:', error) and the 500 answer's error.message: the numbers the
\* error message holds.
ErrorRecords(e) ==
    { [to |-> t, kind |-> "party", value |-> q] :
        t \in {"log", "response"}, q \in e.error.parties }
    \cup
    { [to |-> t, kind |-> "count", value |-> n] :
        t \in {"log", "response"},
        n \in IF e.error.kind = "timeout"
              THEN {e.error.received, e.error.required} ELSE {} }

\* The 200 answer of POST /api/dkg/start: publicKeyShare and
\* aggregatedPublicKey of the result.
ResponseRecords(e) ==
    IF e.pc # "done" THEN {}
    ELSE { [to |-> "response", kind |-> "point", value |-> v] :
             v \in {e.myPublicKeyShare, e.aggregatedPublicKey} }

\* Everything the engine's ceremony has written so far.
Records(e) ==
    CeremonyLog(e)
      \cup (IF e.myKeyShare = Unset THEN {} ELSE Round5Log(e.myKeyShare))
      \cup PublicKeyLog(e)
      \cup ErrorRecords(e)
      \cup ResponseRecords(e)

(***************************************************************************)
(* Actions of SpecDKG.  Engine k of party p is engines[p][k]; messages     *)
(* from the orchestrator reach the last engine the node created.           *)
(***************************************************************************)
\* An engine that goes straight to the wait of round 7.
SetPcToRound7(p, k, pc) == [engines EXCEPT ![p][k].pc = "round7"]

\* The engine's ceremony moves on to the given round.
SetPc(p, k, pc) == [engines EXCEPT ![p][k].pc = pc]

\* POST /api/dkg/start -> startDKGCeremony -> runDKGCeremony, up to the wait
\* of round 2: the node replaces this.dkgService, and the new engine draws
\* its coefficients and broadcasts its commitment.
\* A peer that is not honest may send a commitment message that lacks a
\* commitment (short).
StartDKGCeremony(p, short) ==
    /\ LET cost == (IF Len(engines[p]) = 0 THEN 0 ELSE 1) + (IF short THEN 1 ELSE 0)
           coeffs == RandomCoefficients(p, Len(engines[p]) + 1, dkgConfig.threshold)
       IN  /\ dkgBudget.anomalies >= cost
           /\ IF ConstructorError(dkgConfig) # "none"
              THEN /\ dkgErrors' = dkgErrors
                         \cup {[node |-> p, error |-> ConstructorError(dkgConfig)]}
                   /\ UNCHANGED <<engines, chan, dkgBudget>>
              ELSE /\ engines' = [engines EXCEPT
                            ![p] = Append(@, NewEngine(PartyIdOf(ValidatorId(p)),
                                                       dkgConfig, coeffs))]
                   /\ chan' = RelayAll(chan, shareRouting, p,
                                 << IF short THEN ShortCommitmentMsg(p, coeffs)
                                    ELSE CommitmentMsg(p, coeffs) >>)
                   /\ dkgBudget' = [dkgBudget EXCEPT !.anomalies = @ - cost]
                   /\ UNCHANGED dkgErrors
    /\ UNCHANGED <<dkgConfig, shareRouting, dkgDropped>>

\* orchestrator DKG_START -> handleDKGStart: logs and creates nothing.
HandleDKGStart(p) ==
    /\ \E q \in Others(p) : Len(engines[q]) > 0
    /\ UNCHANGED dkgVars

\* orchestrator DKG_COMMITMENT / DKG_SHARE / DKG_PUBLIC_KEY_SHARE ->
\* handleDKGMessage: discarded when the node has no engine, else handed to
\* this.dkgService.
HandleDKGMessage(from, to) ==
    /\ chan[<<from, to>>] # <<>>
    /\ LET msg == Head(chan[<<from, to>>])
           k   == Len(engines[to])
       IN  IF k = 0
           THEN /\ dkgDropped' = dkgDropped \cup {[to |-> to, msg |-> msg]}
                /\ UNCHANGED engines
           ELSE /\ engines' = [engines EXCEPT
                                 ![to][k] = HandleOrchestratorMessage(@, msg)]
                /\ UNCHANGED dkgDropped
    /\ chan' = [chan EXCEPT ![<<from, to>>] = Tail(@)]
    /\ UNCHANGED <<dkgConfig, shareRouting, dkgErrors, dkgBudget>>

\* round2_VerifyCommitments: the wait ends once the quota is reached, then
\* every received commitment is verified.
Round2_VerifyCommitments(p, k) ==
    /\ k \in DOMAIN engines[p]
    /\ engines[p][k].pc = "round2"
    /\ MapSize(engines[p][k].receivedCommitments) >= RequiredFromPeers(engines[p][k])
    /\ LET e       == engines[p][k]
           invalid == {c \in e.receivedCommitments : ~VerifyCommitment(e, c.data)}
       IN  IF invalid = {}
           THEN engines' = SetPc(p, k, "round3")
           ELSE \E c \in invalid :
                   engines' = [engines EXCEPT
                                 ![p][k].pc = "failed",
                                 ![p][k].error = InvalidCommitmentError(c.from)]
    /\ UNCHANGED <<dkgConfig, chan, shareRouting, dkgDropped, dkgErrors, dkgBudget>>

\* round3_GenerateShares: one share to every other party.
Round3_GenerateShares(p, k, bad) ==
    /\ k \in DOMAIN engines[p]
    /\ engines[p][k].pc = "round3"
    /\ bad # 0 => (bad # p /\ dkgBudget.anomalies > 0)
    /\ chan' = RelayAll(chan, shareRouting, p, ShareMsgsFrom(engines[p][k], 1, bad))
    /\ engines' = SetPc(p, k, "round5")
    /\ dkgBudget' = [dkgBudget EXCEPT !.anomalies = IF bad = 0 THEN @ ELSE @ - 1]
    /\ UNCHANGED <<dkgConfig, shareRouting, dkgDropped, dkgErrors>>

\* round4_VerifyShares (empty), round5_ComputeKeyShare and
\* round6_BroadcastPublicKeyShare; getPublicKey rejects the key 0.
Round5_ComputeKeyShare(p, k) ==
    /\ k \in DOMAIN engines[p]
    /\ engines[p][k].pc = "round5"
    /\ LET e        == engines[p][k]
           keyShare == ComputeKeyShare(e)
       IN  IF keyShare = 0
           THEN /\ engines' = [engines EXCEPT ![p][k].pc = "failed",
                                              ![p][k].error = InvalidKeyError,
                                              ![p][k].summed = Added(e),
                                              ![p][k].myKeyShare = keyShare]
                /\ UNCHANGED chan
           ELSE /\ engines' = [engines EXCEPT
                                 ![p][k].pc = "round7",
                                 ![p][k].summed = Added(e),
                                 ![p][k].myKeyShare = keyShare,
                                 ![p][k].myPublicKeyShare = SchnorrPublicKey(keyShare)]
                /\ chan' = RelayAll(chan, shareRouting, p,
                              << PublicKeyShareMsg(p, SchnorrPublicKey(keyShare)) >>)
    /\ UNCHANGED <<dkgConfig, shareRouting, dkgDropped, dkgErrors, dkgBudget>>

\* round7_AggregatePublicKeys: the wait ends once the quota is reached;
\* runDKGCeremony then stores the key share if the engine was given an
\* hsmStore, and returns its result.
Round7_AggregatePublicKeys(p, k) ==
    /\ k \in DOMAIN engines[p]
    /\ engines[p][k].pc = "round7"
    /\ MapSize(engines[p][k].receivedPublicKeyShares)
          >= RequiredFromPeers(engines[p][k])
    /\ engines' = [engines EXCEPT
                     ![p][k].pc = "done",
                     ![p][k].stored = engines[p][k].hsmStore,
                     ![p][k].aggregatedPublicKey = AggregatePublicKeys(engines[p][k])]
    /\ UNCHANGED <<dkgConfig, chan, shareRouting, dkgDropped, dkgErrors, dkgBudget>>

\* The wait of engine k of party p has not reached its quota.
Waiting(p, k) ==
    \/ /\ engines[p][k].pc = "round2"
       /\ MapSize(engines[p][k].receivedCommitments)
             < RequiredFromPeers(engines[p][k])
    \/ /\ engines[p][k].pc = "round7"
       /\ MapSize(engines[p][k].receivedPublicKeyShares)
             < RequiredFromPeers(engines[p][k])

\* waitForAllCommitments / waitForAllPublicKeyShares: the timeout elapses
\* with the quota not reached and the ceremony throws.
DkgTimeout(p, k) ==
    /\ dkgBudget.timeouts > 0
    /\ k \in DOMAIN engines[p]
    /\ Waiting(p, k)
    /\ LET e == engines[p][k]
       IN  engines' = [engines EXCEPT
              ![p][k].pc = "failed",
              ![p][k].error =
                  IF e.pc = "round2"
                  THEN TimeoutError("commitments", MapSize(e.receivedCommitments),
                                    RequiredFromPeers(e))
                  ELSE TimeoutError("publicKeyShares",
                                    MapSize(e.receivedPublicKeyShares),
                                    RequiredFromPeers(e))]
    /\ dkgBudget' = [dkgBudget EXCEPT !.timeouts = @ - 1]
    /\ UNCHANGED <<dkgConfig, chan, shareRouting, dkgDropped, dkgErrors>>

EngineSlots == 1..(1 + MaxDkgAnomalies)

\* The queues of the orchestrator: <<p, q>> holds the messages of party p on
\* their way to node q; an orchestrator that echoes uses <<p, p>> as well.
Links == Nodes \X Nodes

NoCeremony ==
    /\ engines = [p \in Nodes |-> <<>>]
    /\ chan = [pr \in Links |-> <<>>]
    /\ dkgDropped = {}
    /\ dkgErrors = {}

DkgIdle ==
    /\ NoCeremony
    /\ dkgConfig = FullCeremony
    /\ shareRouting = "addressed"
    /\ dkgBudget = [anomalies |-> 0, timeouts |-> 0]

DkgInit ==
    /\ NoCeremony
    /\ dkgConfig = FullCeremony
    /\ shareRouting = "addressed"
    /\ dkgBudget = [anomalies |-> MaxDkgAnomalies, timeouts |-> MaxDkgTimeouts]

(***************************************************************************)
(* FileBasedKeyStore (part_001).  A buffer is a sequence of bytes.  The     *)
(* primitives of the crypto module are functions of their inputs: the key  *)
(* derivation mixes password and salt, the cipher adds a key stream that   *)
(* depends on key, iv and position, and the tag depends on key, iv and     *)
(* ciphertext; decipher.final() throws when the tag does not match.        *)
(***************************************************************************)
SaltLen == 32
IvLen   == 16
TagLen  == 16

MaxKeyStoreCalls  == 3   \* storeKeyShare / sign / getPublicKey / deleteKey calls
MaxKeyStoreFaults == 1   \* file-system writes that fail

KeyIds == {"validator-party-1", "validator-party-2"}

\* The key shares and the random salts and ivs of the model.
KeyShares == { <<7, 250>>, <<9, 1>> }
Salts == { [i \in 1..SaltLen |-> 0], [i \in 1..SaltLen |-> IF i = SaltLen THEN 201 ELSE 3] }
Ivs   == { [i \in 1..IvLen |-> 0], [i \in 1..IvLen |-> IF i = 1 THEN 77 ELSE 5] }
MessageHashes == { <<1>>, <<2>> }
CreationTimes == {1, 2}

\* config.encryption: absent, or present with a password that may be empty.
KeyStoreConfigs ==
    { [hasEncryption |-> FALSE, password |-> ""],
      [hasEncryption |-> TRUE,  password |-> ""],
      [hasEncryption |-> TRUE,  password |-> "correct horse"] }

\* this.config.encryption?.password as a condition
PasswordSet(config) == config.hasEncryption /\ config.password # ""

RECURSIVE SumBytes(_)
SumBytes(buf) == IF buf = <<>> THEN 0 ELSE Head(buf) + SumBytes(Tail(buf))

PasswordBytes(password) ==
    CASE password = "correct horse" -> <<99, 111, 114>>
      [] password = "battery"       -> <<98, 97, 116>>
      [] OTHER                      -> <<>>

\* crypto.pbkdf2Sync(password, salt, 100000, 32, 'sha256')
Pbkdf2(password, salt) ==
    (SumBytes(PasswordBytes(password)) * 31 + SumBytes(salt) * 17 + 5) % 256

KeyStream(key, iv, i) == (key * 7 + SumBytes(iv) * 3 + i * 13) % 256

\* cipher.update(data) followed by cipher.final()
CipherUpdateFinal(key, iv, data) ==
    [i \in 1..Len(data) |-> (data[i] + KeyStream(key, iv, i)) % 256]

\* cipher.getAuthTag()
AuthTag(key, iv, encrypted) ==
    [j \in 1..TagLen |-> (key + SumBytes(iv) + SumBytes(encrypted) * j) % 256]

\* decipher.update(data) followed by decipher.final()
DecipherUpdateFinal(key, iv, authTag, encrypted) ==
    IF AuthTag(key, iv, encrypted) # authTag
    THEN [ok |-> FALSE, data |-> <<>>]
    ELSE [ok |-> TRUE,
          data |-> [i \in 1..Len(encrypted) |->
                       (encrypted[i] + 256 - KeyStream(key, iv, i)) % 256]]

\* Buffer.subarray(start, end), clamped to the buffer
Subarray(buf, start, end) ==
    SubSeq(buf, start + 1, IF end < Len(buf) THEN end ELSE Len(buf))

\* encryptKeyShare: salt (32) + iv (16) + authTag (16) + encrypted data
EncryptKeyShare(keyShare, password, salt, iv) ==
    LET key       == Pbkdf2(password, salt)
        encrypted == CipherUpdateFinal(key, iv, keyShare)
        authTag   == AuthTag(key, iv, encrypted)
    IN  salt \o iv \o authTag \o encrypted

\* A decryptKeyShare that takes the ciphertext to start where the tag starts.
DecryptKeyShareNoTagSkip(encryptedData, password) ==
    LET salt      == Subarray(encryptedData, 0, SaltLen)
        iv        == Subarray(encryptedData, SaltLen, SaltLen + IvLen)
        authTag   == Subarray(encryptedData, SaltLen + IvLen, SaltLen + IvLen + TagLen)
        encrypted == Subarray(encryptedData, SaltLen + IvLen, Len(encryptedData))
    IN  DecipherUpdateFinal(Pbkdf2(password, salt), iv, authTag, encrypted)

\* decryptKeyShare
DecryptKeyShare(encryptedData, password) ==
    LET salt      == Subarray(encryptedData, 0, SaltLen)
        iv        == Subarray(encryptedData, SaltLen, SaltLen + IvLen)
        authTag   == Subarray(encryptedData, SaltLen + IvLen, SaltLen + IvLen + TagLen)
        encrypted == Subarray(encryptedData, SaltLen + IvLen + TagLen,
                              Len(encryptedData))
    IN  DecipherUpdateFinal(Pbkdf2(password, salt), iv, authTag, encrypted)

NoFile == [exists |-> FALSE, data |-> <<>>]
NoMetadata == [exists |-> FALSE, keyId |-> "", createdAt |-> 0]
NothingStored == [share |-> <<>>, salt |-> <<>>, iv |-> <<>>]
NoResult == [op |-> "none", keyId |-> "", ok |-> TRUE, keyShare |-> <<>>]

\* What sign and getPublicKey read back as the key share.
ReadKeyShare(config, file) ==
    IF ~file.exists THEN [ok |-> FALSE, data |-> <<>>]
    ELSE IF PasswordSet(config) THEN DecryptKeyShare(file.data, config.password)
    ELSE [ok |-> TRUE, data |-> file.data]

\* storeKeyShare(keyShare, metadata): writes the key file, then the metadata
\* file; a write that fails throws and ends the call there.
StoreKeyShare(keyShare, keyId, createdAt, salt, iv, failAt) ==
    /\ ksBudget.calls > 0
    /\ failAt # "none" => ksBudget.faults > 0
    /\ LET dataToStore == IF PasswordSet(ksConfig)
                          THEN EncryptKeyShare(keyShare, ksConfig.password, salt, iv)
                          ELSE keyShare
           keyWritten  == failAt # "keyWrite"
           metaWritten == failAt = "none"
       IN  /\ keyFiles' = IF keyWritten
                          THEN [keyFiles EXCEPT ![keyId] =
                                   [exists |-> TRUE, data |-> dataToStore]]
                          ELSE keyFiles
           /\ ksStored' = IF keyWritten
                          THEN [ksStored EXCEPT ![keyId] =
                                   [share |-> keyShare, salt |-> salt, iv |-> iv]]
                          ELSE ksStored
           /\ metaFiles' = IF metaWritten
                           THEN [metaFiles EXCEPT ![keyId] =
                                    [exists |-> TRUE, keyId |-> keyId,
                                     createdAt |-> createdAt]]
                           ELSE metaFiles
           /\ ksResult' = [op |-> "storeKeyShare", keyId |-> keyId,
                           ok |-> metaWritten, keyShare |-> <<>>]
    /\ ksBudget' = [ksBudget EXCEPT !.calls = @ - 1,
                                    !.faults = IF failAt = "none" THEN @ ELSE @ - 1]
    /\ UNCHANGED ksConfig

\* sign(messageHash, keyId): reads the key file, decrypts it if a password is
\* configured, and signs with what it read.
Sign(messageHash, keyId) ==
    /\ ksBudget.calls > 0
    /\ LET read == ReadKeyShare(ksConfig, keyFiles[keyId])
       IN  ksResult' = [op |-> "sign", keyId |-> keyId, ok |-> read.ok,
                        keyShare |-> read.data]
    /\ ksBudget' = [ksBudget EXCEPT !.calls = @ - 1]
    /\ UNCHANGED <<ksConfig, keyFiles, metaFiles, ksStored>>

\* getPublicKey(keyId)
GetPublicKey(keyId) ==
    /\ ksBudget.calls > 0
    /\ LET read == ReadKeyShare(ksConfig, keyFiles[keyId])
       IN  ksResult' = [op |-> "getPublicKey", keyId |-> keyId, ok |-> read.ok,
                        keyShare |-> read.data]
    /\ ksBudget' = [ksBudget EXCEPT !.calls = @ - 1]
    /\ UNCHANGED <<ksConfig, keyFiles, metaFiles, ksStored>>

\* deleteKey(keyId): unlinks the key file, then the metadata file; unlink of
\* a missing file throws and ends the call there.
DeleteKey(keyId) ==
    /\ ksBudget.calls > 0
    /\ keyFiles' = [keyFiles EXCEPT ![keyId] = NoFile]
    /\ ksStored' = [ksStored EXCEPT ![keyId] = NothingStored]
    /\ metaFiles' = IF keyFiles[keyId].exists
                    THEN [metaFiles EXCEPT ![keyId] = NoMetadata]
                    ELSE metaFiles
    /\ ksResult' = [op |-> "deleteKey", keyId |-> keyId,
                    ok |-> keyFiles[keyId].exists /\ metaFiles[keyId].exists,
                    keyShare |-> <<>>]
    /\ ksBudget' = [ksBudget EXCEPT !.calls = @ - 1]
    /\ UNCHANGED ksConfig

\* listKeys(): the parsed content of every *.metadata.json file of the
\* directory, here the key ids they name.
ListKeys(files) == {files[k].keyId : k \in {id \in KeyIds : files[id].exists}}

EmptyKeyDir ==
    /\ keyFiles = [k \in KeyIds |-> NoFile]
    /\ metaFiles = [k \in KeyIds |-> NoMetadata]
    /\ ksStored = [k \in KeyIds |-> NothingStored]
    /\ ksResult = NoResult

KsIdle ==
    /\ EmptyKeyDir
    /\ ksConfig = [hasEncryption |-> FALSE, password |-> ""]
    /\ ksBudget = [calls |-> 0, faults |-> 0]

\* new FileBasedKeyStore(config) followed by initialize()
KsInit ==
    /\ EmptyKeyDir
    /\ ksConfig \in KeyStoreConfigs
    /\ ksBudget = [calls |-> MaxKeyStoreCalls, faults |-> MaxKeyStoreFaults]

(***************************************************************************)
(* ChainMonitorService under the supervisor of index.ts: startMonitoring   *)
(* connects the deployments one after another, then the revenue tracker is *)
(* initialized, then the validator node is started and registers its       *)
(* 'signalEvent' listener.  The providers deliver SignalSent logs.         *)
(***************************************************************************)
MaxLogDeliveries   == 3   \* SignalSent callbacks of the providers
MaxEndpointChanges == 1   \* an RPC endpoint becoming reachable or unreachable
MaxConfirmations   == 1   \* depth of a log's block when the provider delivers it

\* The confirmation depth the operator configures for a chain (section 4.D).
ConfirmationDepth(chain) == 1

\* config.deployments, in order: the chain ids
Deployments == << "1", "56" >>
Chains == Range(Deployments)

\* An initializeFromDeployments whose loop ends at the first deployment
\* that cannot be connected.
ConnectDeploymentOrGiveUp ==
    /\ supPc = "startMonitoring"
    /\ cmIndex <= Len(Deployments)
    /\ LET chainId == Deployments[cmIndex]
       IN  IF reachable[chainId]
           THEN /\ evmProviders' = evmProviders \cup {chainId}
                /\ subscriptions' = [subscriptions EXCEPT ![chainId] = @ + 1]
                /\ cmIndex' = cmIndex + 1
           ELSE /\ UNCHANGED <<evmProviders, subscriptions>>
                /\ cmIndex' = Len(Deployments) + 1
    /\ UNCHANGED <<supPc, isMonitoring, reachable, nodeListening, delivered, emitted,
                   unheard, cmBudget>>

\* getActiveChains(): 'EVM-<chainId>' for every provider held
GetActiveChains(providers) == {<<"EVM", chainId>> : chainId \in providers}

\* initializeFromDeployments, one iteration: provider.getNetwork() tests the
\* connection; on success the provider is kept and listenSignalEvents
\* subscribes, on failure the error is logged and the loop goes on.
ConnectDeployment ==
    /\ supPc = "startMonitoring"
    /\ cmIndex <= Len(Deployments)
    /\ LET chainId == Deployments[cmIndex]
       IN  IF reachable[chainId]
           THEN /\ evmProviders' = evmProviders \cup {chainId}
                /\ subscriptions' = [subscriptions EXCEPT ![chainId] = @ + 1]
           ELSE UNCHANGED <<evmProviders, subscriptions>>
    /\ cmIndex' = cmIndex + 1
    /\ UNCHANGED <<supPc, isMonitoring, reachable, nodeListening, delivered, emitted,
                   unheard, cmBudget>>

\* startMonitoring returns: isMonitoring = true
MonitoringStarted ==
    /\ supPc = "startMonitoring"
    /\ cmIndex > Len(Deployments)
    /\ isMonitoring' = TRUE
    /\ supPc' = "revenueTracker"
    /\ UNCHANGED <<cmIndex, reachable, evmProviders, subscriptions, nodeListening,
                   delivered, emitted, unheard, cmBudget>>

\* revenueTracker.initialize() (or the stand-in object when no database is
\* configured)
RevenueTrackerInitialized ==
    /\ supPc = "revenueTracker"
    /\ supPc' = "validatorNode"
    /\ UNCHANGED <<cmIndex, isMonitoring, reachable, evmProviders, subscriptions,
                   nodeListening, delivered, emitted, unheard, cmBudget>>

\* new ValidatorNode(..) and validatorNode.start(): connectToOrchestrator,
\* setupTSSListeners, setupChainListeners
ValidatorNodeStarted ==
    /\ supPc = "validatorNode"
    /\ nodeListening' = TRUE
    /\ supPc' = "running"
    /\ UNCHANGED <<cmIndex, isMonitoring, reachable, evmProviders, subscriptions,
                   delivered, emitted, unheard, cmBudget>>

\* The emitted 'signalEvent' payloads of one SignalSent callback: one per
\* subscription of the chain.
RECURSIVE EmitTimes(_, _, _)
EmitTimes(b, n, payload) ==
    IF n = 0 THEN b ELSE EmitTimes(b (+) SetToBag({payload}), n - 1, payload)

\* signalContract.on('SignalSent', ..): the provider delivers a log whose
\* block has the given number of confirmations; the handler emits
\* 'signalEvent', which reaches handleSignalEvent if the node has registered
\* its listener and nobody otherwise.
DeliverSignalSent(chainId, event, confirmations) ==
    /\ cmBudget.logs > 0
    /\ subscriptions[chainId] >= 1
    /\ LET payload == [chainId |-> chainId, event |-> event,
                       confirmations |-> confirmations]
       IN  /\ delivered' = delivered (+) SetToBag({payload})
           /\ emitted' = EmitTimes(emitted, subscriptions[chainId], payload)
    /\ IF nodeListening THEN HandleSignalEvent(event, TRUE, TRUE) ELSE UNCHANGED signVars
    /\ cmBudget' = [cmBudget EXCEPT !.logs = @ - 1]
    /\ UNCHANGED <<supPc, cmIndex, isMonitoring, reachable, evmProviders,
                   subscriptions, nodeListening, unheard>>

\* The RPC endpoint of a chain becomes reachable or stops being reachable.
EndpointChanges(chainId) ==
    /\ cmBudget.endpoints > 0
    /\ reachable' = [reachable EXCEPT ![chainId] = ~@]
    /\ cmBudget' = [cmBudget EXCEPT !.endpoints = @ - 1]
    /\ UNCHANGED <<supPc, cmIndex, isMonitoring, evmProviders, subscriptions,
                   nodeListening, delivered, emitted, unheard>>

\* stop() that leaves the listeners of the providers in place
KeepListeners(subs, providers) == subs

\* provider.removeAllListeners() for every provider held in evmProviders:
\* the contract listeners of listenSignalEvents are registered on the provider
\* of their contract, so none of them is left.
RemoveAllListeners(subs, providers) ==
    [c \in Chains |-> IF c \in providers THEN 0 ELSE subs[c]]

\* SIGTERM / SIGINT: validatorNode?.stop() closes the connection,
\* chainMonitor?.stop() clears isMonitoring and removes the listeners of the
\* providers, and the process exits: initializeServices takes no further step.
Shutdown ==
    /\ supPc # "stopped"
    /\ supPc' = "stopped"
    /\ isMonitoring' = FALSE
    /\ subscriptions' = RemoveAllListeners(subscriptions, evmProviders)
    /\ wsOpen' = FALSE
    /\ UNCHANGED <<cmIndex, reachable, evmProviders, nodeListening, delivered,
                   emitted, unheard, cmBudget>>
    /\ UNCHANGED <<tssPartyId, requests, wire, nodeEvents, initiated, revenue,
                   rejections, alive, budget>>

\* A SignalSent log of a chain whose provider has no listener attached: no
\* callback runs and nothing is emitted.
ProviderLogUnheard(chainId, event) ==
    /\ cmBudget.logs > 0
    /\ chainId \in evmProviders
    /\ subscriptions[chainId] = 0
    /\ unheard' = unheard (+) SetToBag({[chainId |-> chainId, event |-> event]})
    /\ cmBudget' = [cmBudget EXCEPT !.logs = @ - 1]
    /\ UNCHANGED <<supPc, cmIndex, isMonitoring, reachable, evmProviders,
                   subscriptions, nodeListening, delivered, emitted>>

NotMonitoring ==
    /\ supPc = "startMonitoring"
    /\ cmIndex = 1
    /\ isMonitoring = FALSE
    /\ evmProviders = {}
    /\ subscriptions = [c \in Chains |-> 0]
    /\ nodeListening = FALSE
    /\ delivered = EmptyBag
    /\ emitted = EmptyBag
    /\ unheard = EmptyBag

CmIdle ==
    /\ NotMonitoring
    /\ reachable = [c \in Chains |-> TRUE]
    /\ cmBudget = [logs |-> 0, endpoints |-> 0]

\* new ChainMonitorService({deployments}) with any endpoints reachable
CmInit ==
    /\ NotMonitoring
    /\ reachable \in [Chains -> BOOLEAN]
    /\ cmBudget = [logs |-> MaxLogDeliveries, endpoints |-> MaxEndpointChanges]

(***************************************************************************)
(* SpecHealth: GET /health (index.ts) over HealthCheckService.getStatus    *)
(* (TSSGrpcClient.ts).                                                     *)
(***************************************************************************)
MaxHealthRequests == 2

\* Object.values(components).filter(v => v).length
HealthyCount(components) ==
    (IF components.validatorNode THEN 1 ELSE 0)
      + (IF components.chainMonitor THEN 1 ELSE 0)
      + (IF components.tssService THEN 1 ELSE 0)
      + (IF components.revenueTracker THEN 1 ELSE 0)

\* healthy with all four components, degraded with two or three
OverallStatus(healthyCount) ==
    IF healthyCount = 4 THEN "healthy"
    ELSE IF healthyCount >= 2 THEN "degraded"
    ELSE "unhealthy"

\* HealthCheckService.getStatus: the revenue tracker component is the
\* constant true.
GetStatus(node, chains) ==
    LET components == [ validatorNode  |-> node.isRunning /\ node.connected,
                        chainMonitor   |-> \E c \in Chains : chains[c],
                        tssService     |-> node.hasKeyShare,
                        revenueTracker |-> TRUE ]
    IN  [ status     |-> OverallStatus(HealthyCount(components)),
          components |-> components ]

\* The answer of the /health route: 'initializing' while no health check
\* service exists; 200 for 'healthy' and 503 for anything else.
HealthRoute(created, node, chains) ==
    LET health == IF created THEN GetStatus(node, chains)
                  ELSE [status |-> "initializing"]
    IN  [ statusCode |-> IF health.status = "healthy" THEN 200 ELSE 503,
          status     |-> health.status ]

NoAnswer == [statusCode |-> 0, status |-> "none"]

\* validatorNode.start(): isRunning = true
NodeRuns ==
    /\ ~nodeStatus.isRunning
    /\ nodeStatus' = [nodeStatus EXCEPT !.isRunning = TRUE]
    /\ UNCHANGED <<healthCheck, chainHealth, dbConnected, lastHealth, hcBudget>>

\* healthCheck = new HealthCheckService(..), after the node has started
HealthCheckCreated ==
    /\ nodeStatus.isRunning
    /\ ~healthCheck
    /\ healthCheck' = TRUE
    /\ UNCHANGED <<nodeStatus, chainHealth, dbConnected, lastHealth, hcBudget>>

\* The orchestrator connection opens or closes.
ConnectionChanges ==
    /\ nodeStatus.isRunning
    /\ nodeStatus' = [nodeStatus EXCEPT !.connected = ~@]
    /\ UNCHANGED <<healthCheck, chainHealth, dbConnected, lastHealth, hcBudget>>

\* The TSS service obtains its key share.
KeyShareLoaded ==
    /\ ~nodeStatus.hasKeyShare
    /\ nodeStatus' = [nodeStatus EXCEPT !.hasKeyShare = TRUE]
    /\ UNCHANGED <<healthCheck, chainHealth, dbConnected, lastHealth, hcBudget>>

\* The RPC endpoint of a chain starts or stops answering getBlockNumber().
ChainHealthChanges(chainId) ==
    /\ chainHealth' = [chainHealth EXCEPT ![chainId] = ~@]
    /\ UNCHANGED <<healthCheck, nodeStatus, dbConnected, lastHealth, hcBudget>>

\* The database of the revenue tracker becomes unreachable or reachable:
\* its queries fail (recordSignatureRequest logs the error) or succeed.
DatabaseChanges ==
    /\ dbConnected' = ~dbConnected
    /\ UNCHANGED <<healthCheck, nodeStatus, chainHealth, lastHealth, hcBudget>>

\* GET /health
GetHealth ==
    /\ hcBudget > 0
    /\ lastHealth' = HealthRoute(healthCheck, nodeStatus, chainHealth)
    /\ hcBudget' = hcBudget - 1
    /\ UNCHANGED <<healthCheck, nodeStatus, chainHealth, dbConnected>>

ProcessStarted ==
    /\ healthCheck = FALSE
    /\ nodeStatus = [isRunning |-> FALSE, connected |-> FALSE, hasKeyShare |-> FALSE]
    /\ chainHealth = [c \in Chains |-> FALSE]
    /\ dbConnected = TRUE
    /\ lastHealth = NoAnswer

HcIdle == ProcessStarted /\ hcBudget = 0

HcInit == ProcessStarted /\ hcBudget = MaxHealthRequests

(***************************************************************************)
(* ValidatorNode: the orchestrator connection (ValidatorNode.ts:39-95,     *)
(* 318-348).  conn holds the node's isRunning, the readyState of its       *)
(* wsConnection ("none" before the first new WebSocket) and its            *)
(* reconnectTimer; a socket emits 'close' once, after a failed handshake   *)
(* as well as after an open connection ends.                               *)
(***************************************************************************)
MaxRefusals == 3  \* handshakes that fail
MaxDrops    == 3  \* open connections the network ends

\* connectToOrchestrator: a new WebSocket, unless no orchestrator is
\* configured.
ConnectToOrchestrator(n) ==
    IF ~n.configured
    THEN n
    ELSE [n EXCEPT !.wsConnection = "connecting", !.connects = @ + 1]

\* A close handler that schedules nothing.
ScheduleNothing(n) == n

\* A close handler that schedules whether or not the node is running.
ScheduleAlways(n) == [n EXCEPT !.reconnectTimer = "armed"]

\* scheduleReconnect: nothing once the node is not running, else the timer
\* is re-armed.
ScheduleReconnect(n) ==
    IF ~n.isRunning
    THEN n
    ELSE [n EXCEPT !.reconnectTimer = "armed"]

\* start()
NodeStart ==
    /\ conn.pc = "constructed"
    /\ conn' = ConnectToOrchestrator([conn EXCEPT !.pc = "running",
                                                  !.isRunning = TRUE])

\* wsConnection 'open': the node registers.
SocketOpen ==
    /\ conn.wsConnection = "connecting"
    /\ conn' = [conn EXCEPT !.wsConnection = "open", !.registered = @ + 1]

\* wsConnection 'close' after a handshake that failed ('error' only logs).
HandshakeFails ==
    /\ conn.wsConnection = "connecting"
    /\ conn.refusals > 0
    /\ conn' = ScheduleReconnect([conn EXCEPT !.wsConnection = "closed",
                                              !.refusals = @ - 1])

\* wsConnection 'close': the network ends the open connection.
ConnectionDrops ==
    /\ conn.wsConnection = "open"
    /\ conn.drops > 0
    /\ conn' = ScheduleReconnect([conn EXCEPT !.wsConnection = "closed",
                                              !.drops = @ - 1])

\* wsConnection 'close': the close() of stop() completes.
SocketClosed ==
    /\ conn.wsConnection = "closing"
    /\ conn' = ScheduleReconnect([conn EXCEPT !.wsConnection = "closed"])

\* The reconnect timer fires, 5 s after it was armed.
ReconnectTimerFires ==
    /\ conn.reconnectTimer = "armed"
    /\ conn' = ConnectToOrchestrator([conn EXCEPT !.reconnectTimer = "fired"])

\* stop()
NodeStop ==
    /\ conn.pc \in {"constructed", "running"}
    /\ conn' = [conn EXCEPT
                  !.pc = "stopped",
                  !.isRunning = FALSE,
                  !.reconnectTimer = IF @ = "armed" THEN "cleared" ELSE @,
                  !.wsConnection = IF @ \in {"connecting", "open"}
                                   THEN "closing" ELSE @]

NodeConstructed(configured) ==
    [pc |-> "constructed", configured |-> configured, isRunning |-> FALSE,
     wsConnection |-> "none", reconnectTimer |-> "none", connects |-> 0,
     registered |-> 0, refusals |-> MaxRefusals, drops |-> MaxDrops]

ConnIdle == conn = [NodeConstructed(FALSE) EXCEPT !.refusals = 0, !.drops = 0]

ConnInit == \E configured \in BOOLEAN : conn = NodeConstructed(configured)

(***************************************************************************)
(* RevenueTracker (RevenueTracker.ts:157-390).  tracker holds the two      *)
(* tables of the database and the recordSignature calls under way; every   *)
(* query is one step, and calls interleave between their queries.  A       *)
(* validator share is a whole number of fee units.                         *)
(***************************************************************************)
MaxRevenueCalls  == 2     \* recordSignature calls
MinPayoutAmount  == 2     \* config.minPayoutAmount (100 in index.ts)

RevenueCalls   == 1..MaxRevenueCalls
RevenueTxs     == {"0xaa", "0xbb"}
RevenueShares  == {0, 1, MinPayoutAmount}

RECURSIVE SumSeq(_, _)
\* The sum of f over the entries of a sequence.
SumSeq(q, f) ==
    IF q = <<>> THEN 0 ELSE f[Head(q)] + SumSeq(Tail(q), f)

\* validator_signatures rows of a transaction
RowsOf(rows, txHash) == {i \in DOMAIN rows : rows[i].txHash = txHash}

\* SUM(CASE WHEN is_paid_out = 0 THEN validator_share ELSE 0 END)
PendingPayout(rows) ==
    SumSeq(rows, [r \in {rows[i] : i \in DOMAIN rows} |->
                    IF r.paid THEN 0 ELSE r.share])

\* SUM(validator_share) of the rows with is_paid_out = 1
PaidOutShares(rows) ==
    SumSeq(rows, [r \in {rows[i] : i \in DOMAIN rows} |->
                    IF r.paid THEN r.share ELSE 0])

\* SUM(amount) of the payouts with status 'completed'
TotalPaidOut(payouts) ==
    SumSeq(payouts, [r \in {payouts[i] : i \in DOMAIN payouts} |->
                       IF r.status = "completed" THEN r.amount ELSE 0])

\* recordSignature: SELECT id ... WHERE validator_id AND tx_hash; an existing
\* row is returned.
RecordSignature_Check(c) ==
    /\ tracker.calls[c].pc = "check"
    /\ tracker' = [tracker EXCEPT
          !.calls[c].pc = IF RowsOf(tracker.rows, tracker.calls[c].txHash) # {}
                          THEN "returnedExisting" ELSE "insert"]

\* recordSignature: INSERT INTO validator_signatures; UQ_validator_tx lets
\* the query fail when the transaction has a row, and the call rethrows.
RecordSignature_Insert(c) ==
    /\ tracker.calls[c].pc = "insert"
    /\ LET call == tracker.calls[c]
       IN  IF RowsOf(tracker.rows, call.txHash) # {}
           THEN tracker' = [tracker EXCEPT !.calls[c].pc = "threw"]
           ELSE tracker' = [tracker EXCEPT
                   !.rows = Append(@, [txHash |-> call.txHash, share |-> call.share,
                                       paid |-> FALSE]),
                   !.calls[c].pc = "stats"]

\* checkPayoutThreshold: getRevenueStats, then the comparison with
\* minPayoutAmount.
CheckPayoutThreshold(c) ==
    /\ tracker.calls[c].pc = "stats"
    /\ LET pending == PendingPayout(tracker.rows)
       IN  tracker' = [tracker EXCEPT
              !.calls[c].pending = pending,
              !.calls[c].pc = IF pending >= MinPayoutAmount
                              THEN "payout" ELSE "recorded"]

\* initiatePayout: INSERT INTO validator_payouts (..., 'pending')
InitiatePayout(c) ==
    /\ tracker.calls[c].pc = "payout"
    /\ tracker' = [tracker EXCEPT
          !.payouts = Append(@, [amount |-> tracker.calls[c].pending,
                                 status |-> "pending"]),
          !.calls[c].payoutId = Len(tracker.payouts) + 1,
          !.calls[c].pc = "complete"]

\* completePayout: UPDATE validator_payouts SET status = 'completed'
CompletePayout_Payout(c) ==
    /\ tracker.calls[c].pc = "complete"
    /\ tracker' = [tracker EXCEPT
          !.payouts[tracker.calls[c].payoutId].status = "completed",
          !.calls[c].pc = "mark"]

\* completePayout: UPDATE validator_signatures SET is_paid_out = 1
\* WHERE is_paid_out = 0
CompletePayout_Signatures(c) ==
    /\ tracker.calls[c].pc = "mark"
    /\ tracker' = [tracker EXCEPT
          !.rows = [i \in DOMAIN @ |-> [@[i] EXCEPT !.paid = TRUE]],
          !.calls[c].pc = "recorded"]

NewCall(txHash, share) ==
    [pc |-> "check", txHash |-> txHash, share |-> share, pending |-> 0,
     payoutId |-> 0]

NoCall == [NewCall("0xaa", 0) EXCEPT !.pc = "none"]

RtIdle ==
    tracker = [rows |-> <<>>, payouts |-> <<>>, calls |-> [c \in RevenueCalls |-> NoCall]]

RtInit ==
    \E calls \in [RevenueCalls -> {NewCall(h, v) : h \in RevenueTxs, v \in RevenueShares}] :
        tracker = [rows |-> <<>>, payouts |-> <<>>, calls |-> calls]

(***************************************************************************)
(* TSSGrpcClient (TSSGrpcClient.ts:54-239).  grpc holds the client's       *)
(* connected flag and its calls; the transport invokes the callback of a   *)
(* call once, with an error or with a response.                            *)
(***************************************************************************)
MaxGrpcCalls == 2     \* calls made on one client

GrpcCalls    == 1..MaxGrpcCalls
GrpcMethods  == {"runDKG", "generatePartialSignature", "aggregateSignatures"}
GrpcPayloads == {1, 2}

\* A callback that looks at the transport error only.
CallbackIgnoringSuccess(error, success, payload) ==
    IF error
    THEN << [settle |-> "reject", value |-> 0] >>
    ELSE << [settle |-> "resolve", value |-> payload] >>

\* The callback of a call: the resolve / reject invocations it makes, in
\* order.
Callback(error, success, payload) ==
    IF error
    THEN << [settle |-> "reject", value |-> 0] >>
    ELSE IF ~success
         THEN << [settle |-> "reject", value |-> 0] >>
         ELSE << [settle |-> "resolve", value |-> payload] >>

\* A promise takes the first settlement and ignores the later ones.
PromiseState(invocations) ==
    IF invocations = <<>> THEN "pending"
    ELSE IF Head(invocations).settle = "resolve" THEN "resolved" ELSE "rejected"

\* runDKG / generatePartialSignature / aggregateSignatures: the request is
\* handed to the transport.
GrpcCall(c, method) ==
    /\ grpc.calls[c].pc = "idle"
    /\ grpc' = [grpc EXCEPT !.calls[c].pc = "pending", !.calls[c].method = method]

\* The transport ends the call: with an error, or with a response that
\* carries success and the payload.  A closed client gets errors only.
GrpcCallback(c, error, success, payload) ==
    /\ grpc.calls[c].pc = "pending"
    /\ grpc.closed => error
    /\ LET invocations == Callback(error, success, payload)
       IN  grpc' = [grpc EXCEPT
              !.calls[c].pc = "answered",
              !.calls[c].error = error,
              !.calls[c].success = success,
              !.calls[c].payload = payload,
              !.calls[c].settlements = Len(invocations),
              !.calls[c].promise = PromiseState(invocations),
              !.calls[c].value = IF invocations = <<>> THEN 0
                                 ELSE Head(invocations).value]

\* close()
GrpcClose ==
    /\ ~grpc.closed
    /\ grpc' = [grpc EXCEPT !.closed = TRUE, !.connected = FALSE]

NoGrpcCall ==
    [pc |-> "idle", method |-> "none", error |-> FALSE, success |-> FALSE,
     payload |-> 0, settlements |-> 0, promise |-> "pending", value |-> 0]

\* new TSSGrpcClient(serverAddress)
GrpcConstructed ==
    [connected |-> TRUE, closed |-> FALSE, calls |-> [c \in GrpcCalls |-> NoGrpcCall]]

GrpcIdle == grpc = [GrpcConstructed EXCEPT !.connected = FALSE, !.closed = TRUE,
                                           !.calls = [c \in GrpcCalls |->
                                               [NoGrpcCall EXCEPT !.pc = "none"]]]

GrpcInit == grpc = GrpcConstructed

(***************************************************************************)
(* Specifications.                                                         *)
(***************************************************************************)
Init == SignInit /\ MsgIdle /\ DkgIdle /\ KsIdle /\ CmIdle /\ HcIdle /\ ConnIdle /\ RtIdle /\ GrpcIdle

Next ==
    \/ \E event \in SignalEvents, signOk \in BOOLEAN :
          HandleSignalEvent(event, signOk, TRUE) /\ UNCHANGED besideSign
    \/ \E data \in RelayedRequestData, signOk \in BOOLEAN :
          HandleSigningRequest(data, signOk) /\ UNCHANGED besideSign
    \/ \E rid \in ReqIds, party \in 2..4, sigOk \in BOOLEAN, aggKind \in AggregateKinds :
          HandlePartialSignature(rid, party, sigOk, aggKind)
             /\ UNCHANGED besideSign
    \/ \E rid \in ReqIds : SigningTimeout(rid) /\ UNCHANGED besideSign
    \/ WsOpened /\ UNCHANGED besideSign
    \/ WsClosed /\ UNCHANGED besideSign

Spec == Init /\ [][Next]_vars

\* The signing coordinator with the reconnect timer running: a closed
\* connection is opened again (scheduleReconnect, connectToOrchestrator).
ReconnectFairness == WF_vars(WsOpened /\ UNCHANGED besideSign)

SpecReconnect == Init /\ [][Next]_vars /\ ReconnectFairness

\* Signal events with a revenue database that may fail on any of them.
NextRevenueFault ==
    \/ \E event \in SignalEvents, signOk \in BOOLEAN, recordOk \in BOOLEAN :
          HandleSignalEvent(event, signOk, recordOk) /\ UNCHANGED besideSign
    \/ WsOpened /\ UNCHANGED besideSign
    \/ WsClosed /\ UNCHANGED besideSign

SpecRevenueFault == Init /\ [][NextRevenueFault]_vars

InitMsg == SignInit /\ MsgInit /\ DkgIdle /\ KsIdle /\ CmIdle /\ HcIdle /\ ConnIdle /\ RtIdle /\ GrpcIdle

NextMsg ==
    \/ BuildA /\ UNCHANGED besideMsg
    \/ BuildB /\ UNCHANGED besideMsg

SpecMsg == InitMsg /\ [][NextMsg]_vars

InitDKG == SignInit /\ MsgIdle /\ DkgInit /\ KsIdle /\ CmIdle /\ HcIdle /\ ConnIdle /\ RtIdle /\ GrpcIdle

NextDKG ==
    \/ \E p \in Validators, short \in BOOLEAN :
          StartDKGCeremony(p, short) /\ UNCHANGED besideDkg
    \/ \E p \in Validators : HandleDKGStart(p) /\ UNCHANGED besideDkg
    \/ \E pr \in Links : HandleDKGMessage(pr[1], pr[2]) /\ UNCHANGED besideDkg
    \/ \E p \in Validators, k \in EngineSlots :
          Round2_VerifyCommitments(p, k) /\ UNCHANGED besideDkg
    \/ \E p \in Validators, k \in EngineSlots, bad \in 0..DkgTotalParties :
          Round3_GenerateShares(p, k, bad) /\ UNCHANGED besideDkg
    \/ \E p \in Validators, k \in EngineSlots :
          Round5_ComputeKeyShare(p, k) /\ UNCHANGED besideDkg
    \/ \E p \in Validators, k \in EngineSlots :
          Round7_AggregatePublicKeys(p, k) /\ UNCHANGED besideDkg
    \/ \E p \in Validators, k \in EngineSlots :
          DkgTimeout(p, k) /\ UNCHANGED besideDkg

SpecDKG == InitDKG /\ [][NextDKG]_vars

\* A ceremony in which a validator beyond the coded total parties takes
\* part, every node running the code as it is.
InitDKGCrowded ==
    /\ SignInit /\ MsgIdle /\ NoCeremony /\ KsIdle /\ CmIdle /\ HcIdle /\ ConnIdle /\ RtIdle /\ GrpcIdle
    /\ dkgConfig = CrowdedCeremony
    /\ shareRouting = "addressed"
    /\ dkgBudget = [anomalies |-> 0, timeouts |-> MaxDkgTimeouts]

SpecDKGCrowded == InitDKGCrowded /\ [][NextDKG]_vars

\* The ceremony with parties to spare, over an orchestrator that passes
\* every DKG message on to every other validator; every node runs the code
\* as it is and no wait runs into its timeout.
InitDKGBroadcast ==
    /\ SignInit /\ MsgIdle /\ NoCeremony /\ KsIdle /\ CmIdle /\ HcIdle /\ ConnIdle /\ RtIdle /\ GrpcIdle
    /\ dkgConfig = QuorumCeremony
    /\ shareRouting = "broadcast"
    /\ dkgBudget = [anomalies |-> 0, timeouts |-> 0]

NextDKGBroadcast ==
    \/ \E p \in Validators : StartDKGCeremony(p, FALSE) /\ UNCHANGED besideDkg
    \/ \E pr \in Links : HandleDKGMessage(pr[1], pr[2]) /\ UNCHANGED besideDkg
    \/ \E p \in Validators :
          Round2_VerifyCommitments(p, 1) /\ UNCHANGED besideDkg
    \/ \E p \in Validators :
          Round3_GenerateShares(p, 1, 0) /\ UNCHANGED besideDkg
    \/ \E p \in Validators :
          Round5_ComputeKeyShare(p, 1) /\ UNCHANGED besideDkg
    \/ \E p \in Validators :
          Round7_AggregatePublicKeys(p, 1) /\ UNCHANGED besideDkg

SpecDKGBroadcast == InitDKGBroadcast /\ [][NextDKGBroadcast]_vars

\* The ceremony in which every party is needed, over an orchestrator that
\* sends every DKG message to every connected validator, its sender included.
InitDKGEcho ==
    /\ SignInit /\ MsgIdle /\ NoCeremony /\ KsIdle /\ CmIdle /\ HcIdle /\ ConnIdle /\ RtIdle /\ GrpcIdle
    /\ dkgConfig = FullCeremony
    /\ shareRouting = "echo"
    /\ dkgBudget = [anomalies |-> 0, timeouts |-> 0]

SpecDKGEcho == InitDKGEcho /\ [][NextDKGBroadcast]_vars

\* The configurations a DKGService may be constructed with: a threshold
\* below, at and above the total parties.
DkgConfigs ==
    { [threshold |-> t, totalParties |-> DkgThreshold, hsmStore |-> FALSE,
       validators |-> 1..DkgThreshold] :
        t \in (DkgThreshold - 1)..(DkgThreshold + 1) }

InitDKGConfigs ==
    /\ SignInit /\ MsgIdle /\ NoCeremony /\ KsIdle /\ CmIdle /\ HcIdle /\ ConnIdle /\ RtIdle /\ GrpcIdle
    /\ dkgConfig \in DkgConfigs
    /\ shareRouting = "addressed"
    /\ dkgBudget = [anomalies |-> 1, timeouts |-> MaxDkgTimeouts]

SpecDKGConfigs == InitDKGConfigs /\ [][NextDKG]_vars

\* A wait that runs into its timeout with nothing on the way to the party:
\* every message sent to it has been delivered well within the timeout.
PatientTimeout(p, k) ==
    /\ \A q \in Nodes \ {p} : chan[<<q, p>>] = <<>>
    /\ DkgTimeout(p, k)

\* The ceremony with parties to spare, every node running the code as it is:
\* no repeated start, no repeated message, every share on its polynomial.
InitDKGFair ==
    /\ SignInit /\ MsgIdle /\ NoCeremony /\ KsIdle /\ CmIdle /\ HcIdle /\ ConnIdle /\ RtIdle /\ GrpcIdle
    /\ dkgConfig = QuorumCeremony
    /\ shareRouting = "addressed"
    /\ dkgBudget = [anomalies |-> 0, timeouts |-> DkgTotalParties]

NextDKGFair ==
    \/ \E p \in DkgParties, short \in BOOLEAN :
          StartDKGCeremony(p, short) /\ UNCHANGED besideDkg
    \/ \E p \in DkgParties : HandleDKGStart(p) /\ UNCHANGED besideDkg
    \/ \E pr \in Links : HandleDKGMessage(pr[1], pr[2]) /\ UNCHANGED besideDkg
    \/ \E p \in DkgParties :
          Round2_VerifyCommitments(p, 1) /\ UNCHANGED besideDkg
    \/ \E p \in DkgParties :
          Round3_GenerateShares(p, 1, 0) /\ UNCHANGED besideDkg
    \/ \E p \in DkgParties :
          Round5_ComputeKeyShare(p, 1) /\ UNCHANGED besideDkg
    \/ \E p \in DkgParties :
          Round7_AggregatePublicKeys(p, 1) /\ UNCHANGED besideDkg
    \/ \E p \in DkgParties :
          PatientTimeout(p, 1) /\ UNCHANGED besideDkg

\* The event loop runs every handler whose message has arrived, every
\* continuation of a running ceremony, and the timer of every wait.  Nothing
\* obliges an operator to start a ceremony.
DkgFairness ==
    /\ \A pr \in Links :
          WF_vars(HandleDKGMessage(pr[1], pr[2]) /\ UNCHANGED besideDkg)
    /\ \A p \in Nodes :
          /\ WF_vars(Round2_VerifyCommitments(p, 1) /\ UNCHANGED besideDkg)
          /\ WF_vars(Round3_GenerateShares(p, 1, 0) /\ UNCHANGED besideDkg)
          /\ WF_vars(Round5_ComputeKeyShare(p, 1) /\ UNCHANGED besideDkg)
          /\ WF_vars(Round7_AggregatePublicKeys(p, 1) /\ UNCHANGED besideDkg)
          /\ WF_vars(PatientTimeout(p, 1) /\ UNCHANGED besideDkg)

SpecDKGFair == InitDKGFair /\ [][NextDKGFair]_vars /\ DkgFairness

InitKeyStore == SignInit /\ MsgIdle /\ DkgIdle /\ KsInit /\ CmIdle /\ HcIdle /\ ConnIdle /\ RtIdle /\ GrpcIdle

NextKeyStore ==
    \/ \E keyShare \in KeyShares, keyId \in KeyIds, createdAt \in CreationTimes,
          salt \in Salts, iv \in Ivs, failAt \in {"none", "keyWrite", "metaWrite"} :
          StoreKeyShare(keyShare, keyId, createdAt, salt, iv, failAt)
             /\ UNCHANGED besideKs
    \/ \E messageHash \in MessageHashes, keyId \in KeyIds :
          Sign(messageHash, keyId) /\ UNCHANGED besideKs
    \/ \E keyId \in KeyIds : GetPublicKey(keyId) /\ UNCHANGED besideKs
    \/ \E keyId \in KeyIds : DeleteKey(keyId) /\ UNCHANGED besideKs

SpecKeyStore == InitKeyStore /\ [][NextKeyStore]_vars

InitMonitor == SignInit /\ MsgIdle /\ DkgIdle /\ KsIdle /\ CmInit /\ HcIdle /\ ConnIdle /\ RtIdle /\ GrpcIdle

NextMonitor ==
    \/ ConnectDeployment /\ UNCHANGED besideCm
    \/ MonitoringStarted /\ UNCHANGED besideCm
    \/ RevenueTrackerInitialized /\ UNCHANGED besideCm
    \/ ValidatorNodeStarted /\ UNCHANGED besideCm
    \/ \E chainId \in Chains, event \in SignalEvents,
          confirmations \in 0..MaxConfirmations :
          DeliverSignalSent(chainId, event, confirmations)
             /\ UNCHANGED <<msgVars, dkgVars, ksVars, hcVars, connVars, rtVars, grpcVars>>
    \/ \E chainId \in Chains : EndpointChanges(chainId) /\ UNCHANGED besideCm
    \/ Shutdown /\ UNCHANGED <<msgVars, dkgVars, ksVars, hcVars, connVars, rtVars, grpcVars>>
    \/ \E chainId \in Chains, event \in SignalEvents :
          ProviderLogUnheard(chainId, event) /\ UNCHANGED besideCm

\* The supervisor runs on: every step of initializeServices that can be
\* taken is taken.
MonitorFairness ==
    /\ WF_vars(ConnectDeployment /\ UNCHANGED besideCm)
    /\ WF_vars(MonitoringStarted /\ UNCHANGED besideCm)
    /\ WF_vars(RevenueTrackerInitialized /\ UNCHANGED besideCm)
    /\ WF_vars(ValidatorNodeStarted /\ UNCHANGED besideCm)

SpecMonitor == InitMonitor /\ [][NextMonitor]_vars /\ MonitorFairness

InitHealth == SignInit /\ MsgIdle /\ DkgIdle /\ KsIdle /\ CmIdle /\ HcInit /\ ConnIdle /\ RtIdle /\ GrpcIdle

NextHealth ==
    \/ NodeRuns /\ UNCHANGED besideHc
    \/ HealthCheckCreated /\ UNCHANGED besideHc
    \/ ConnectionChanges /\ UNCHANGED besideHc
    \/ KeyShareLoaded /\ UNCHANGED besideHc
    \/ \E chainId \in Chains : ChainHealthChanges(chainId) /\ UNCHANGED besideHc
    \/ DatabaseChanges /\ UNCHANGED besideHc
    \/ GetHealth /\ UNCHANGED besideHc

SpecHealth == InitHealth /\ [][NextHealth]_vars

\* recordSignature calls on one database.
InitRevenue ==
    SignInit /\ MsgIdle /\ DkgIdle /\ KsIdle /\ CmIdle /\ HcIdle /\ ConnIdle /\ RtInit /\ GrpcIdle

NextRevenue ==
    \/ \E c \in RevenueCalls : RecordSignature_Check(c) /\ UNCHANGED besideRt
    \/ \E c \in RevenueCalls : RecordSignature_Insert(c) /\ UNCHANGED besideRt
    \/ \E c \in RevenueCalls : CheckPayoutThreshold(c) /\ UNCHANGED besideRt
    \/ \E c \in RevenueCalls : InitiatePayout(c) /\ UNCHANGED besideRt
    \/ \E c \in RevenueCalls : CompletePayout_Payout(c) /\ UNCHANGED besideRt
    \/ \E c \in RevenueCalls : CompletePayout_Signatures(c) /\ UNCHANGED besideRt

SpecRevenue == InitRevenue /\ [][NextRevenue]_vars

\* One gRPC client and the calls made on it.
InitGrpc ==
    /\ SignInit /\ MsgIdle /\ DkgIdle /\ KsIdle /\ CmIdle /\ HcIdle /\ ConnIdle /\ RtIdle
    /\ GrpcInit

NextGrpc ==
    \/ \E c \in GrpcCalls, method \in GrpcMethods :
          GrpcCall(c, method) /\ UNCHANGED besideGrpc
    \/ \E c \in GrpcCalls, error \in BOOLEAN, success \in BOOLEAN,
          payload \in GrpcPayloads :
          GrpcCallback(c, error, success, payload) /\ UNCHANGED besideGrpc
    \/ GrpcClose /\ UNCHANGED besideGrpc

SpecGrpc == InitGrpc /\ [][NextGrpc]_vars

\* The node and its orchestrator connection; a timer that is armed fires.
InitConnection == SignInit /\ MsgIdle /\ DkgIdle /\ KsIdle /\ CmIdle /\ HcIdle /\ ConnInit /\ RtIdle /\ GrpcIdle

NextConnection ==
    \/ NodeStart /\ UNCHANGED besideConn
    \/ SocketOpen /\ UNCHANGED besideConn
    \/ HandshakeFails /\ UNCHANGED besideConn
    \/ ConnectionDrops /\ UNCHANGED besideConn
    \/ SocketClosed /\ UNCHANGED besideConn
    \/ ReconnectTimerFires /\ UNCHANGED besideConn
    \/ NodeStop /\ UNCHANGED besideConn

TimerFairness == WF_vars(ReconnectTimerFires /\ UNCHANGED besideConn)

SpecConnection == InitConnection /\ [][NextConnection]_vars /\ TimerFairness

(***************************************************************************)
(* Properties of the signing coordinator, checked under Spec.              *)
(***************************************************************************)
RECURSIVE CopiesOf(_, _)
CopiesOf(bag, S) ==
    IF S = {} THEN 0
    ELSE LET m == CHOOSE x \in S : TRUE
         IN  CopiesIn(m, bag) + CopiesOf(bag, S \ {m})

\* The message signed for a signal id.
SignalMessage(sid) == HexDecode(Slice2(sid))

\* The ceremonies this party takes part in for a signal id.
Ceremonies(sid) ==
    {rid \in ReqIds : /\ requests[rid].state \notin {"NONE", "NOT_SELECTED"}
                      /\ requests[rid].message = SignalMessage(sid)}

\* The SIGNATURE_COMPLETE messages sent for a signal id.
CompletesSent(sid) ==
    CopiesOf(wire, {m \in BagToSet(wire) : /\ m.type = "SIGNATURE_COMPLETE"
                                           /\ m.signature.msg = SignalMessage(sid)})

\* The SIGNAL_EVENT notifications sent for a signal id.
SignalEventsSent(sid) ==
    CopiesOf(wire, {m \in BagToSet(wire) : /\ m.type = "SIGNAL_EVENT"
                                           /\ m.signalId = sid})

\* C1: for every signalId the node initiates at most one signing ceremony and
\* emits at most one SIGNATURE_COMPLETE, and an event with an already-seen
\* signalId is a no-op (it sends nothing further).
C1_OneCeremonyPerSignal ==
    \A sid \in SignalIds :
        /\ Cardinality(Ceremonies(sid)) <= 1
        /\ CompletesSent(sid) <= 1
        /\ SignalEventsSent(sid) <= 1

\* The PARTIAL_SIGNATURE messages this party sent for a request.
PartialsSent(rid) ==
    CopiesOf(wire, {m \in BagToSet(wire) : /\ m.type = "PARTIAL_SIGNATURE"
                                           /\ m.requestId = rid})

\* How often initiateSigning was called for a request.
InitiatedCount(rid) ==
    CopiesOf(initiated, {r \in BagToSet(initiated) : r.requestId = rid})

RecordedPartials(rid) ==
    IF requests[rid].state = "NONE" THEN {} ELSE requests[rid].partials

C7_MessageOfExactlyTheFields ==
    built = {"A", "B"} =>
        ((reqA.message = reqB.message) <=> SameSignal(evA, evB))

(***************************************************************************)
(* Properties of the DKG ceremony, checked under SpecDKG and SpecDKGFair.  *)
(***************************************************************************)
Started(p)   == Len(engines[p]) > 0
Current(p)   == engines[p][Len(engines[p])]
Completed(p) == Started(p) /\ Current(p).pc = "done"

\* The sets of parties that are enough for a signature.
Quorums == {S \in SUBSET Nodes : Cardinality(S) >= DkgThreshold}

\* C3: in every run in which the parties of a quorum run the ceremony and
\* the other parties stay away, the ceremony eventually completes at each
\* party of the quorum.
C3_QuorumCompletes ==
    \A S \in Quorums :
        ([](\A p \in Nodes \ S : ~Started(p)))
            => ((\A p \in S : Started(p)) ~> (\A p \in S : Completed(p)))

C4_InconsistentShareRejected ==
    \A p \in Nodes : \A k \in DOMAIN engines[p] :
        \A a \in engines[p][k].summed :
            FeldmanConsistent(a.share, a.commitments, p)

\* C8: at most one ceremony is in progress at a node.
C8_SingleCeremony ==
    \A p \in Nodes :
        Cardinality({k \in DOMAIN engines[p] : Running(engines[p][k])}) <= 1

\* C9: no DKG message that reaches a node is lost, however early it arrives.
C9_EarlyMessageKept == dkgDropped = {}

\* C10: an entry an engine has stored for a party and a message type is
\* never changed by a later message of that type from that party.
C10_DuplicateIgnored ==
    [][\A p \in Nodes : \A k \in DOMAIN engines[p] :
          /\ engines[p][k].receivedCommitments
                 \subseteq engines'[p][k].receivedCommitments
          /\ engines[p][k].receivedShares
                 \subseteq engines'[p][k].receivedShares
          /\ engines[p][k].receivedPublicKeyShares
                 \subseteq engines'[p][k].receivedPublicKeyShares]_vars

(***************************************************************************)
(* Failure and persistence of a ceremony, checked under SpecDKG.           *)
(***************************************************************************)
\* The peers whose share for party e.partyId the engine does not hold.
MissingShares(e) ==
    {q \in (1..e.totalParties) \ {e.partyId} :
        ~\E s \in e.receivedShares : s.from = q /\ s.data.toParty = e.partyId}

\* C11: an engine that got past the commitment round and failed by timeout
\* while a peer's share was missing failed in the share round, its error
\* names every peer whose share is missing, and it neither stored nor
\* returned a key share.
C11_ShareTimeoutNamesMissingParty ==
    \A p \in Nodes : \A k \in DOMAIN engines[p] :
        LET e == engines[p][k]
        IN  (/\ e.pc = "failed"
             /\ e.error.kind = "timeout"
             /\ e.error.round # "commitments"
             /\ MissingShares(e) # {})
                => /\ e.error.round = "shares"
                   /\ MissingShares(e) \subseteq e.error.parties
                   /\ ~e.stored

\* C12: an engine that received, while it waited in round 2, a commitment
\* set whose length differs from the threshold does not get past round 2: it
\* fails with an error that names a sender of such a set, having generated
\* no share and computed no key share.
C12_ShortCommitmentRejected ==
    \A p \in Nodes : \A k \in DOMAIN engines[p] :
        LET e == engines[p][k]
        IN  (e.shortSeen # {} /\ e.pc # "round2")
                => /\ e.pc = "failed"
                   /\ e.error.kind = "invalid_commitment"
                   /\ e.error.parties # {}
                   /\ e.error.parties \subseteq e.shortSeen
                   /\ e.myKeyShare = Unset

C14_StoreDoesNotOverwrite ==
    [][\A k \in KeyIds :
          (keyFiles[k].exists /\ keyFiles'[k].exists)
              => /\ keyFiles'[k] = keyFiles[k]
                 /\ metaFiles'[k] = metaFiles[k]]_vars

\* The buffer has the layout salt, iv, tag, ciphertext of the share, and it
\* decrypts to the share under some password.
EncryptedBlobOf(data, share) ==
    /\ Len(data) = SaltLen + IvLen + TagLen + Len(share)
    /\ \E config \in KeyStoreConfigs :
          /\ PasswordSet(config)
          /\ DecryptKeyShare(data, config.password) = [ok |-> TRUE, data |-> share]

\* C15: every key file on disk holds the share encrypted, never the bytes of
\* the share themselves.
C15_KeyFilesEncrypted ==
    \A k \in KeyIds :
        keyFiles[k].exists
            => /\ keyFiles[k].data # ksStored[k].share
               /\ EncryptedBlobOf(keyFiles[k].data, ksStored[k].share)

\* C16: with a password configured, the key file is salt (32), iv (16),
\* tag (16), ciphertext, decrypting it with the password returns the share
\* that was stored, and sign and getPublicKey work on exactly that share.
C16_EncryptDecryptRoundTrip ==
    /\ \A k \in KeyIds :
          (keyFiles[k].exists /\ PasswordSet(ksConfig))
              => LET data == keyFiles[k].data
                 IN  /\ Len(data) = SaltLen + IvLen + TagLen + Len(ksStored[k].share)
                     /\ SubSeq(data, 1, SaltLen) = ksStored[k].salt
                     /\ SubSeq(data, SaltLen + 1, SaltLen + IvLen) = ksStored[k].iv
                     /\ DecryptKeyShare(data, ksConfig.password)
                            = [ok |-> TRUE, data |-> ksStored[k].share]
    /\ (ksResult.op \in {"sign", "getPublicKey"} /\ keyFiles[ksResult.keyId].exists)
          => /\ ksResult.ok
             /\ ksResult.keyShare = ksStored[ksResult.keyId].share

\* A share stored under a password, its ciphertext differing from it in every
\* byte, and then read back by sign.
C16_Witness ==
    /\ PasswordSet(ksConfig)
    /\ ksResult.op = "sign" /\ ksResult.ok
    /\ LET data == keyFiles[ksResult.keyId].data
           share == ksStored[ksResult.keyId].share
       IN  /\ keyFiles[ksResult.keyId].exists
           /\ ksResult.keyShare = share
           /\ \A i \in 1..Len(share) : data[SaltLen + IvLen + TagLen + i] # share[i]
           /\ \E i \in 1..Len(share) : data[SaltLen + IvLen + TagLen + i] < share[i]


(***************************************************************************)
(* Properties of the chain monitor, checked under SpecMonitor.             *)
(***************************************************************************)
\* The number of 'signalEvent' emissions that carry the signal id.
EmittedFor(sid) ==
    CopiesOf(emitted, {e \in BagToSet(emitted) : e.event.signalId = sid})

\* C17: the monitor emits at most one signalEvent per signalId, however
\* often the providers deliver a log with that id.
C17_OneSignalEventPerSignalId ==
    \A sid \in SignalIds : EmittedFor(sid) <= 1

\* C18: every emitted signalEvent belongs to a log whose block had reached
\* the confirmation depth of its chain when the event was emitted.
C18_EmittedAfterConfirmationDepth ==
    \A e \in BagToSet(emitted) : e.confirmations >= ConfirmationDepth(e.chainId)

\* C19: for every SignalSent log a provider has delivered, the node has
\* initiated a signing request for it.
C19_DeliveredLogIsSigned ==
    \A d \in BagToSet(delivered) : InitiatedCount(SignalRequestId(d.event)) >= 1

\* C20: a chain whose endpoint is reachable from some moment on ends up
\* monitored: held in evmProviders and subscribed to SignalSent.
C20_ReachableChainMonitored ==
    \A c \in Chains :
        (<>[](reachable[c])) => <>(c \in evmProviders /\ subscriptions[c] >= 1)

\* C21: once stop() has completed no signalEvent (and no bridgeEvent, for
\* which the deployments path registers no listener) is emitted, whatever
\* log reaches a provider afterwards.
C21_NoEmissionAfterStop ==
    [][supPc = "stopped" => emitted' = emitted]_vars

\* The monitor had emitted, was stopped, and a later log found no listener.
C21_Witness ==
    /\ supPc = "stopped"
    /\ emitted # EmptyBag
    /\ \E u \in BagToSet(unheard) : \E e \in BagToSet(emitted) : e.chainId = u.chainId

(***************************************************************************)
(* Further properties of the signing coordinator, checked under Spec.      *)
(***************************************************************************)
\* C22: every request passed to initiateSigning has a participants list that
\* is sorted without duplicates, lies in 1..N and has at least t entries.
C22_ParticipantsWellFormed ==
    \A r \in BagToSet(initiated) :
        /\ \A i \in 1..(Len(r.participants) - 1) :
               r.participants[i] < r.participants[i + 1]
        /\ Range(r.participants) \subseteq SignParties
        /\ Len(r.participants) >= SignThreshold

OwnPartialProduced(rid) ==
    \E ps \in RecordedPartials(rid) : ps.partyId = tssPartyId

\* C24: every partial signature this node produces is eventually sent to the
\* orchestrator at least once, also when the connection is closed at the
\* moment the partial is produced.
C24_ProducedPartialDelivered ==
    \A rid \in ReqIds :
        [](OwnPartialProduced(rid) => <>(PartialsSent(rid) >= 1))

(***************************************************************************)
(* The health endpoint, checked under SpecHealth.                          *)
(***************************************************************************)
\* The four components are healthy: the node runs and is connected, a chain
\* answers, the key share is present and the revenue tracker works.
AllHealthy ==
    /\ nodeStatus.isRunning /\ nodeStatus.connected
    /\ \E c \in Chains : chainHealth[c]
    /\ nodeStatus.hasKeyShare
    /\ dbConnected

\* C25: GET /health answers 200 exactly when the services are initialized
\* and all four components are healthy, and 503 in every other case.
C25_HealthAnswer ==
    [][hcBudget' # hcBudget =>
          lastHealth'.statusCode = (IF healthCheck /\ AllHealthy THEN 200 ELSE 503)]_vars

(***************************************************************************)
(* Further properties of the DKG engine, checked under SpecDKG.            *)
(***************************************************************************)
\* C26: the key share of a party is in no log record and in no answer its
\* ceremony produces, whether the ceremony succeeds or fails.
C26_KeyShareNotLogged ==
    \A p \in DkgParties : \A k \in DOMAIN engines[p] :
        LET e == engines[p][k]
        IN  e.myKeyShare # Unset =>
                \A r \in Records(e) : ~(r.kind = "scalar" /\ r.value = e.myKeyShare)

\* One ceremony has completed and another has failed after its key share
\* was computed.
C26_Witness ==
    /\ \E p \in DkgParties : \E k \in DOMAIN engines[p] :
          engines[p][k].pc = "done"
    /\ \E p \in DkgParties : \E k \in DOMAIN engines[p] :
          /\ engines[p][k].pc = "failed"
          /\ engines[p][k].myKeyShare # Unset
          /\ ErrorRecords(engines[p][k]) # {}

(***************************************************************************)
(* Party ids, checked under SpecDKGCrowded.                                *)
(***************************************************************************)
\* The DKG_SHARE messages on their way that the party sent.
SharesOnTheWay(partyId) ==
    {pr \in Links : \E i \in DOMAIN chan[pr] :
        /\ chan[pr][i].type = "DKG_SHARE"
        /\ chan[pr][i].data.fromParty = partyId}

\* C27: every ceremony runs with a party id in 1..N: a node whose validator
\* id gives a party id outside 1..N starts no ceremony and sends no shares.
C27_PartyIdInRange ==
    \A p \in Nodes :
        /\ \A k \in DOMAIN engines[p] :
              engines[p][k].partyId \in 1..engines[p][k].totalParties
        /\ PartyIdOf(ValidatorId(p)) \notin DkgParties => SharesOnTheWay(p) = {}

(***************************************************************************)
(* Engine parameters, checked under SpecDKGConfigs.                        *)
(***************************************************************************)
\* C28: no engine exists with parameters outside 2 <= t <= N: construction
\* with t < 2 or t > N ends in an error, and the (t, N) of an engine never
\* change.
C28_EngineParametersValid ==
    /\ [](\A p \in Nodes :
             /\ \A k \in DOMAIN engines[p] :
                   /\ 2 <= engines[p][k].threshold
                   /\ engines[p][k].threshold <= engines[p][k].totalParties
             /\ (dkgConfig.threshold < 2 \/ dkgConfig.threshold > dkgConfig.totalParties)
                   => engines[p] = <<>>)
    /\ [][\A p \in Nodes : \A k \in DOMAIN engines[p] :
             /\ engines'[p][k].threshold = engines[p][k].threshold
             /\ engines'[p][k].totalParties = engines[p][k].totalParties]_vars

\* A start with a threshold of 1 has been refused.
C28_Witness ==
    /\ dkgConfig.threshold < 2
    /\ \E p \in Nodes : [node |-> p, error |-> "THRESHOLD_BELOW_TWO"] \in dkgErrors
    /\ \A p \in Nodes : engines[p] = <<>>

(***************************************************************************)
(* Key-share assembly, checked under SpecDKGBroadcast.                     *)
(***************************************************************************)
\* The sum, modulo q, of what every party's polynomial gives for party i.
SumOfSharesFor(i) ==
    SumOf({<<j, EvaluatePolynomial(engines[j][1].coefficients, i)>> : j \in DkgParties})
        % GroupOrder

\* Every other party has sent its shares and nothing is on its way to i.
AllSharesArrived(i) ==
    \A j \in Others(i) :
        /\ Len(engines[j]) = 1
        /\ engines[j][1].pc \notin {"round2", "round3"}
        /\ chan[<<j, i>>] = <<>>

\* C29: when party i assembles its key share with every share on hand, the
\* key share is its own share plus the share each other party addressed to
\* i, in whatever order that party's shares arrived.
C29_KeyShareIsSumOfAddressedShares ==
    [][\A i \in DkgParties :
          (/\ Len(engines[i]) = 1
           /\ engines[i][1].pc = "round5"
           /\ engines'[i][1].pc # "round5"
           /\ AllSharesArrived(i))
              => engines'[i][1].myKeyShare = SumOfSharesFor(i)]_vars

(***************************************************************************)
(* Order of the rounds, checked under SpecDKG.                             *)
(***************************************************************************)
\* runDKGCeremony: what follows each position of a ceremony.  Rounds 1 and
\* 2 end at "round3", rounds 3 and 4 at "round5", rounds 5 and 6 at "round7",
\* and round 7 at the returned result.
NextRound(pc) ==
    CASE pc = "round2" -> "round3"
      [] pc = "round3" -> "round5"
      [] pc = "round5" -> "round7"
      [] pc = "round7" -> "done"
      [] OTHER -> "none"

\* C30: within one ceremony the rounds run in their order, each at most
\* once; a failed ceremony runs no further round and stores nothing, and a
\* result is returned only once round 7 has completed.
C30_RoundsInOrder ==
    /\ [](\A p \in Nodes : \A k \in DOMAIN engines[p] :
             LET e == engines[p][k]
             IN  /\ e.stored => e.pc = "done"
                 /\ e.pc = "done" =>
                       /\ e.error = NoError
                       /\ e.myKeyShare # Unset
                       /\ e.myPublicKeyShare # Unset
                       /\ e.aggregatedPublicKey # Unset
                 /\ e.pc # "done" => e.aggregatedPublicKey = Unset
                 /\ e.pc = "failed" => e.error # NoError
                 /\ e.myKeyShare # Unset => e.pc \in {"round7", "done", "failed"}
                 /\ e.myPublicKeyShare # Unset => e.pc \in {"round7", "done", "failed"})
    /\ [][\A p \in Nodes : \A k \in DOMAIN engines[p] :
             engines'[p][k].pc # engines[p][k].pc =>
                 engines'[p][k].pc \in {"failed", NextRound(engines[p][k].pc)}]_vars

\* One ceremony has returned its result and another has failed in the wait
\* of round 7.
C30_Witness ==
    /\ \E p \in Nodes : \E k \in DOMAIN engines[p] :
          /\ engines[p][k].pc = "done"
          /\ engines[p][k].aggregatedPublicKey # Unset
    /\ \E p \in Nodes : \E k \in DOMAIN engines[p] :
          /\ engines[p][k].pc = "failed"
          /\ engines[p][k].error.kind = "timeout"
          /\ engines[p][k].error.round = "publicKeyShares"

(***************************************************************************)
(* The waits of rounds 2 and 7 and the aggregated key, checked under       *)
(* SpecDKGEcho.                                                            *)
(***************************************************************************)
\* The other parties of an engine's ceremony.
PeersOf(e) == (1..e.totalParties) \ {e.partyId}

\* The parties the map of an engine holds an entry of.
SendersIn(m) == {x.from : x \in m}

\* C31: a wait ends successfully only when a message from each of the N-1
\* other parties has been received; messages attributed to the party itself
\* or to an id outside 1..N do not count.
C31_WaitEndsOnAllPeers ==
    [][\A p \in Nodes : \A k \in DOMAIN engines[p] :
          /\ (engines[p][k].pc = "round2" /\ engines'[p][k].pc = "round3")
                => PeersOf(engines[p][k])
                      \subseteq SendersIn(engines[p][k].receivedCommitments)
          /\ (engines[p][k].pc = "round7" /\ engines'[p][k].pc = "done")
                => PeersOf(engines[p][k])
                      \subseteq SendersIn(engines[p][k].receivedPublicKeyShares)]_vars

\* round7_AggregatePublicKeys: the parties whose public key share is added,
\* each as often as it is added: the engine's own, then every map entry.
AggregatedFrom(e) ==
    SetToBag({e.partyId}) (+) SetToBag(SendersIn(e.receivedPublicKeyShares))

C33_ReconnectAttempted ==
    []((/\ conn.isRunning
        /\ conn.configured
        /\ conn.wsConnection = "closed")
          => <>(conn.wsConnection = "connecting" \/ ~conn.isRunning))

\* Every handshake and connection the network could end has ended, and the
\* node is connected again.
C33_Witness ==
    /\ conn.isRunning
    /\ conn.connects = MaxRefusals + MaxDrops + 1
    /\ conn.wsConnection = "open"

\* C34: once stop() has been called no new connection is opened.
C34_NoConnectionAfterStop ==
    [][conn.pc = "stopped" =>
          /\ conn'.connects = conn.connects
          /\ conn'.wsConnection \notin {"connecting", "open"}
          /\ conn'.reconnectTimer # "armed"]_vars

\* A node that had reconnected was stopped while its connection was up, and
\* the close of that connection has been handled.
C34_Witness ==
    /\ conn.pc = "stopped"
    /\ conn.connects >= 2
    /\ conn.reconnectTimer = "fired"
    /\ conn.wsConnection = "closed"

(***************************************************************************)
(* Revenue recording and signing, checked under SpecRevenueFault.          *)
(***************************************************************************)
\* C35: every signal event reaches initiateSigning whether or not its
\* revenue record was written, and no error of the handler ends the process
\* or keeps later events from being handled.
C35_SigningDespiteRevenueFailure ==
    [][budget'.requests < budget.requests =>
          /\ BagCardinality(initiated') = BagCardinality(initiated) + 1
          /\ alive']_vars

\* Signing was initiated for an event whose revenue record failed and for
\* another whose record was written.
C35_Witness ==
    /\ \E req \in BagToSet(initiated) : req.txHash \notin revenue
    /\ \E req \in BagToSet(initiated) : req.txHash \in revenue
    /\ budget.requests = 0

(***************************************************************************)
(* The revenue tables, checked under SpecRevenue.                          *)
(***************************************************************************)
\* C36: a transaction has at most one row, and a call for a transaction
\* that has a row ends with that row and without an error, an insert or a
\* payout check.
C36_RecordedOnce ==
    /\ \A h \in RevenueTxs : Cardinality(RowsOf(tracker.rows, h)) <= 1
    /\ \A c \in RevenueCalls :
          tracker.calls[c].pc = "threw" => RowsOf(tracker.rows, tracker.calls[c].txHash) = {}

\* C37: with no completed payout waiting for its signatures to be marked,
\* the completed payouts add up to the validator shares of the signatures
\* marked as paid out.
C37_PayoutsMatchPaidShares ==
    (\A c \in RevenueCalls : tracker.calls[c].pc # "mark")
        => TotalPaidOut(tracker.payouts) = PaidOutShares(tracker.rows)

(***************************************************************************)
(* The listing of the file key store, checked under SpecKeyStore.          *)
(***************************************************************************)
\* C38: listKeys returns exactly the key ids that have a key share file,
\* which are the ones sign and getPublicKey can read, also after calls that
\* failed part-way.
C38_ListedKeysAreStoredKeys ==
    /\ ListKeys(metaFiles) = {k \in KeyIds : keyFiles[k].exists}
    /\ ListKeys(metaFiles) = {k \in KeyIds : ReadKeyShare(ksConfig, keyFiles[k]).ok}

(***************************************************************************)
(* The gRPC client, checked under SpecGrpc.                                *)
(***************************************************************************)
\* C39: a call that has been answered is settled exactly once: rejected
\* after a transport error or a response without success, resolved with the
\* payload of the response otherwise; a call not yet answered is pending;
\* and isConnected() is true until close() and false afterwards.
C39_CallsSettleOnce ==
    /\ grpc.connected = ~grpc.closed
    /\ \A c \in GrpcCalls :
          LET call == grpc.calls[c]
          IN  IF call.pc = "answered"
              THEN /\ call.settlements = 1
                   /\ call.promise = IF call.error \/ ~call.success
                                     THEN "rejected" ELSE "resolved"
                   /\ call.promise = "resolved" => call.value = call.payload
              ELSE call.settlements = 0 /\ call.promise = "pending"

\* One call was resolved with its payload, another was rejected for a
\* response without success, and the client has been closed.
C39_Witness ==
    /\ grpc.closed
    /\ \E c \in GrpcCalls :
          /\ grpc.calls[c].promise = "resolved"
          /\ grpc.calls[c].value = grpc.calls[c].payload
    /\ \E c \in GrpcCalls :
          /\ grpc.calls[c].promise = "rejected"
          /\ ~grpc.calls[c].error
          /\ ~grpc.calls[c].success

(***************************************************************************)
(* The chains monitored after startMonitoring, checked under SpecMonitor.  *)
(***************************************************************************)
\* C40: every configured chain is tried in turn whether or not the ones
\* before it could be connected; a chain is active exactly if its connection
\* succeeded, and until stop() an active chain has exactly one SignalSent
\* subscription and another chain none.
C40_ActiveChainsAreConnectedChains ==
    /\ [](isMonitoring => cmIndex > Len(Deployments))
    /\ [](supPc # "stopped" =>
             \A chainId \in Chains :
                 subscriptions[chainId] =
                     IF <<"EVM", chainId>> \in GetActiveChains(evmProviders)
                     THEN 1 ELSE 0)
    /\ [][cmIndex' # cmIndex =>
             /\ cmIndex' = cmIndex + 1
             /\ (<<"EVM", Deployments[cmIndex]>> \in GetActiveChains(evmProviders'))
                   = reachable[Deployments[cmIndex]]
             /\ evmProviders' \ {Deployments[cmIndex]}
                   = evmProviders \ {Deployments[cmIndex]}]_vars

\* Monitoring has started with the first deployment not connected and the
\* second one active.
C40_Witness ==
    /\ isMonitoring
    /\ supPc # "stopped"
    /\ Deployments[1] \notin evmProviders
    /\ Deployments[2] \in evmProviders
    /\ subscriptions[Deployments[2]] = 1

====
